---- MODULE Spec2Model ----
(***************************************************************************)
(* Verification model of ModAndroid.pyw (Android Auto Rom tool):           *)
(*   - GpsPatcherThread.run, the services.jar patch pipeline (Spec)        *)
(*   - the smali pattern rules A and B (SpecRuleA, SpecRuleB)              *)
(*   - ensure_edify_stat_lines, the updater-script merge (SpecMerge)       *)
(*   - update_updater_script and PermissionThread (SpecUpdate, SpecPerm)   *)
(*   - remove_debug_lines on the disassembly files (SpecRuleC)             *)
(*   - patch_build_prop, patch_init_rc, AdbPatcherThread (SpecBuildProp,   *)
(*     SpecInitRc, SpecAdb) and the smart auto-patch flow (SpecSmartFair)  *)
(* Texts are sequences of tokens (lines or lexical pieces), member names   *)
(* are sequences of string chunks, so that the regular expressions and     *)
(* the str.replace conversions of the source are computed, not assumed.    *)
(***************************************************************************)
EXTENDS Integers, Sequences, FiniteSets, TLC

VARIABLES
    \* ---- GpsPatcherThread ----
    pc,                  \* position of run()
    cancel_requested,    \* self._cancel_requested
    cancelAt,            \* history: position of run() when cancel() was called
    cancelInFlight,      \* history: the tasks that were running when cancel() was called
    overwrite_original,  \* self.overwrite_original
    same_path,           \* output_path and self.input_file are the same file
    jars_present,        \* the jar files that exist in java_dir
    archive_ok,          \* zipfile.ZipFile(self.input_file) can be opened
    members,             \* zin.namelist() / zin.infolist(): member names in order
    temp_dir,            \* "none" | "exists" | "removed"
    dex_files,           \* sorted unit member names
    dtask,               \* decompile task state per unit
    smali_dirs_fs,       \* smali* directories present in temp_dir
    baksmali_out,        \* the files baksmali writes for each unit, per directory
    smali_files,         \* the files below temp_dir: path -> lines
    ruleC_log,           \* files remove_debug_lines logged as not processed
    toolFailed,          \* history: some run_command returned False
    patched1,            \* result of patch_system_app_ops_helper
    patched2,            \* result of patch_mock_location_provider
    recompiled_dex_files,\* dict keys (dex names) in insertion order
    rtask,               \* recompile task state per smali directory
    attempts,            \* history: run_command calls returned, per recompile task
    inverted,            \* history: stages where a task returned before an earlier one
    tempDex,             \* content of temp_dir/<dex_name> written by smali
    zi,                  \* index of the next member to copy
    di,                  \* index of the next recompiled dex to write
    copied_count,        \* copied_count of the repack loop
    destFile,            \* the file at output_path
    tmpFile,             \* the file at output_path + ".tmp" (overwrite mode)
    tmpTouched,          \* history: the .tmp sibling was created at some point
    ioFailed,            \* history: repacking raised an exception
    progress,            \* progress_update emissions, in order
    results,             \* patch_finished / cancelled emissions, in order
    \* ---- ensure_edify_stat_lines ----
    script,              \* text of the updater-script
    script0,             \* history: the text before the first merge
    prevScript,          \* history: the text before the last merge
    lastItems,           \* history: items of the last merge
    prevItems,           \* history: items of the merge before the last
    nMerges,             \* history: number of merges done
    result,              \* the dict update_updater_script returned last
    backups,             \* contents of the .bak.<timestamp> siblings, in order
    scriptOpens,         \* history: times the script was opened for writing
    nCalls,              \* history: number of calls of update_updater_script
    script_exists,       \* META-INF/com/google/android/updater-script exists
    lastCall,            \* history: what the file system did in the last call
    lastEntries,         \* history: the entries of the last call
    \* ---- pattern rules ----
    smali,               \* text of the target .smali file
    smali0,              \* history: the text before the rule
    ruleDone,            \* "none" | "A" | "B"
    count_bool,          \* count_bool of patch_system_app_ops_helper
    count_int,           \* count_int of patch_system_app_ops_helper
    count_mock,          \* count of patch_mock_location_provider
    \* ---- PermissionThread ----
    action_type,         \* self.action_type: "apk" | "dir"
    recursive,           \* self.recursive
    is_windows,          \* self.is_windows
    update_script,       \* self.update_script
    rom_root,            \* self.rom_root is set
    path_parts,          \* self.path relative to self.rom_root, by components
    tree,                \* the files and directories below self.path
    ppc,                 \* position of PermissionThread.run()
    success,             \* success of run()
    walk_pending,        \* os.walk: the directories still to be walked, in order
    walk_dirs,           \* dirs of the triple being processed, not yet attempted
    perms,               \* mode and owner of every path
    setPermsCalls,       \* history: the calls of _set_perms, in order
    task_finished,       \* task_finished emissions, in order
    script_update_finished, \* script_update_finished emissions (the result dicts), in order
    \* ---- FilePatcherLogic.patch_build_prop ----
    build_prop,          \* text of the build.prop file
    build_prop0,         \* history: the text before the first patch
    build_prop_prev,     \* history: the text before the last patch
    nPropRuns,           \* history: number of patches applied
    \* ---- AdbPatcherThread.patch_init_rc ----
    init_rc,             \* text of the init.rc file
    init_rc0,            \* history: the text before the first patch
    init_rc_prev,        \* history: the text before the last patch
    nRcRuns,             \* history: number of patches applied
    \* ---- AdbPatcherThread ----
    build_prop_path,     \* self.build_prop_path is set
    init_rc_path,        \* self.init_rc_path is set
    adb_cancel_requested,\* self._cancel_requested
    adbCancelAt,         \* history: position of run() when cancel() was called
    apc,                 \* position of AdbPatcherThread.run()
    modified_contents,   \* self.modified_contents
    adb_signals,         \* patch_finished / cancelled emissions, in order
    \* ---- MainWindow: smart auto-patch ----
    smart_detected_files,\* the keys of self.smart_detected_files
    smart_overwrite,     \* self.smart_overwrite_checkbox.isChecked()
    spc,                 \* "idle" | "started" | "done": smart_auto_patch was called
    ui_busy,             \* the UI is locked (_beginBusy without _endBusy since)
    endBusyCalls,        \* history: number of calls of _endBusy
    gpc,                 \* the GPS patcher thread: "none" | "running" | "cleanup" | "end"
    gps_signals,         \* patch_finished / cancelled emissions of the GPS thread
    gps_delivered,       \* number of GPS signals whose slot has run
    adb_delivered,       \* number of ADB signals whose slot has run
    saved_files          \* the files smart_save_adb_files wrote: place -> content

pipeVars == <<pc, cancel_requested, cancelAt, cancelInFlight, overwrite_original, same_path, jars_present, baksmali_out, smali_files, ruleC_log,
              archive_ok, members, temp_dir, dex_files, dtask, smali_dirs_fs,
              toolFailed, patched1, patched2, recompiled_dex_files, rtask, attempts, inverted,
              tempDex, zi, di, copied_count, destFile, tmpFile, tmpTouched,
              ioFailed, progress, results>>
mergeVars == <<script, script0, prevScript, lastItems, prevItems, nMerges,
               result, backups, scriptOpens, nCalls, lastCall, lastEntries,
               script_exists>>
ruleVars == <<smali, smali0, ruleDone, count_bool, count_int, count_mock>>
permVars == <<action_type, recursive, is_windows, update_script, rom_root, path_parts, tree,
              ppc, success, walk_pending, walk_dirs, perms, setPermsCalls,
              task_finished, script_update_finished>>
propVars == <<build_prop, build_prop0, build_prop_prev, nPropRuns>>
rcVars == <<init_rc, init_rc0, init_rc_prev, nRcRuns>>
adbVars == <<build_prop_path, init_rc_path, adb_cancel_requested, adbCancelAt, apc,
             modified_contents, adb_signals>>
smartVars == <<smart_detected_files, smart_overwrite, spc, ui_busy, endBusyCalls, gpc,
               gps_signals, gps_delivered, adb_delivered, saved_files>>
toolVars == <<propVars, rcVars, adbVars, smartVars>>
vars == <<pipeVars, mergeVars, ruleVars, permVars, toolVars>>

(***************************************************************************)
(* Bounds of the model.                                                    *)
(***************************************************************************)
MaxNonUnits == 2
MaxUnits == 2
MaxMembers == 20

(***************************************************************************)
(* Generic helpers.                                                        *)
(***************************************************************************)
RemoveAll(s, c) == SelectSeq(s, LAMBDA x : x # c)

Range(s) == {s[i] : i \in DOMAIN s}

Last(s) == s[Len(s)]

(***************************************************************************)
(* Member names: sequences of chunks, e.g. <<"classes", "2", ".dex">>.     *)
(***************************************************************************)
ClassesDex == <<"classes", ".dex">>

UnitNames == { <<"classes", ".dex">>,
               <<"classes", "2", ".dex">>,
               <<"classes", ".dex", ".dex">> }

NonUnitName(i) == <<"assets/", ToString(i)>>

\* f.startswith('classes') and f.endswith('.dex')
IsDexMember(f) == Len(f) > 0 /\ Head(f) = "classes" /\ Last(f) = ".dex"

\* d.startswith("smali")
IsSmaliDir(d) == Len(d) > 0 /\ Head(d) \in {"smali", "smali_"}

\* order of the chunks as Python orders the strings they stand for
ChunkRank(c) ==
    CASE c = ".dex" -> 1
      [] c = "2" -> 2
      [] c = "3" -> 3
      [] c = "assets/" -> 4
      [] c = "classes" -> 5
      [] c = "smali" -> 6
      [] c = "smali_" -> 7
      [] OTHER -> 8

RECURSIVE NameLess(_, _)
NameLess(a, b) ==
    IF a = <<>> THEN b # <<>>
    ELSE IF b = <<>> THEN FALSE
    ELSE IF Head(a) = Head(b) THEN NameLess(Tail(a), Tail(b))
    ELSE ChunkRank(Head(a)) < ChunkRank(Head(b))

\* sorted([...])
RECURSIVE Sorted(_)
Sorted(S) ==
    IF S = {} THEN <<>>
    ELSE LET m == CHOOSE x \in S : \A y \in S \ {x} : NameLess(x, y)
         IN <<m>> \o Sorted(S \ {m})

\* 'smali' if dex_file == 'classes.dex' else f"smali_{dex_file.replace('.dex', '')}"
OutputDirName(dex_file) ==
    IF dex_file = ClassesDex THEN <<"smali">>
    ELSE <<"smali_">> \o RemoveAll(dex_file, ".dex")

\* 'classes.dex' if smali_dir_name == 'smali' else smali_dir_name.replace('smali_', '') + '.dex'
DexName(smali_dir_name) ==
    IF smali_dir_name = <<"smali">> THEN ClassesDex
    ELSE RemoveAll(smali_dir_name, "smali_") \o <<".dex">>

(***************************************************************************)
(* Files: the destination, its .tmp sibling.                               *)
(***************************************************************************)
Prior == [kind |-> "prior", entries |-> <<>>]
Absent == [kind |-> "absent", entries |-> <<>>]
Partial(e) == [kind |-> "partial", entries |-> e]
Zip(e) == [kind |-> "zip", entries |-> e]

OrigBytes(name) == <<"orig">> \o name
NewBytes(dir) == <<"new">> \o dir

(***************************************************************************)
(* Disassembly files: a file is a sequence of lines, a line a sequence of  *)
(* the tokens "sp" (a white-space character), ".line", "d" (a digit) and   *)
(* "x" (any other text); the line terminator is not part of the line.      *)
(* A path below temp_dir is <<directory name, file name>>.                 *)
(***************************************************************************)
\* the smali* directories the units of the model disassemble to
AllDirs == {OutputDirName(u) : u \in UnitNames}

\* units without classes: baksmali writes no file
NoClasses == [d \in AllDirs |-> <<>>]

\* \s* from position i: the position after the white space
RECURSIVE SkipS(_, _)
SkipS(l, i) == IF i <= Len(l) /\ l[i] = "sp" THEN SkipS(l, i + 1) ELSE i

\* \d* from position i
RECURSIVE SkipD(_, _)
SkipD(l, i) == IF i <= Len(l) /\ l[i] = "d" THEN SkipD(l, i + 1) ELSE i

\* line_num_pattern.match(line), pattern ^\s*\.line\s+\d+\s*$
line_num_pattern_match(l) ==
    LET a == SkipS(l, 1)
        b == SkipS(l, a + 1)
        c == SkipD(l, b)
    IN /\ a <= Len(l) /\ l[a] = ".line"
       /\ b > a + 1
       /\ c > b
       /\ SkipS(l, c) > Len(l)

\* file.endswith(".smali"), a file name being <<stem, extension>>
IsSmaliFile(path) == Last(path[2]) = ".smali"

\* what the file system does with one file of remove_debug_lines: the file
\* is rewritten, reading raises, opening for writing raises, or writing
\* raises after the file was truncated
RuleCOutcomes == {"ok", "read_raises", "open_raises", "write_raises"}

\* the lines f_out receives: for line in lines: if not match: write(line)
KeptLines(lines) == SelectSeq(lines, LAMBDA l : ~line_num_pattern_match(l))

\* the content of one .smali file after the try block of remove_debug_lines
RewriteFile(lines, o) ==
    CASE o = "ok" -> KeptLines(lines)
      [] o = "write_raises" -> <<>>
      [] OTHER -> lines

\* the files baksmali writes into the directory d
UnitFiles(d) == [p \in {<<d, n>> : n \in DOMAIN baksmali_out[d]} |-> baksmali_out[d][p[2]]]

(***************************************************************************)
(* Disassembly fixtures: the lines and files of the runs of SpecRuleC.     *)
(***************************************************************************)
LineAnn == <<".line", "sp", "d">>                                 \* .line 7
LineAnnWide == <<"sp", "sp", ".line", "sp", "sp", "d", "d", "sp">>  \* indented, trailing space
LineNoSpace == <<".line", "d">>                                   \* .line7
LineNoNumber == <<".line", "sp">>                                 \* .line
LineComment == <<".line", "sp", "d", "sp", "x">>                  \* .line 7 # text
LineNotFirst == <<"x", "sp", ".line", "sp", "d">>                 \* text .line 7
LineNumberLetter == <<".line", "sp", "d", "x">>                   \* .line 7a
LineInstr == <<"sp", "x">>                                        \* an instruction
LineBlank == <<>>

TextPlain == <<LineInstr, LineAnn, LineInstr, LineAnnWide, LineBlank>>
TextOnlyAnn == <<LineAnn, LineAnnWide>>
TextMixed == <<LineNoSpace, LineNoNumber, LineAnnWide, LineComment>>
TextTail == <<LineNotFirst, LineNumberLetter, LineAnn, LineInstr>>

\* what baksmali writes for one unit
FilesA == (<<"A", ".smali">> :> TextPlain) @@ (<<"R", ".txt">> :> TextOnlyAnn)
FilesB == (<<"A", ".smali">> :> TextMixed) @@ (<<"B", ".smali">> :> TextTail)
FilesC == (<<"A", ".smali">> :> TextOnlyAnn)

\* the archives of the runs: one unit, or two
RuleCArchives == { <<ClassesDex>>, <<ClassesDex, <<"classes", "2", ".dex">> >> }

\* the disassembly of the units of an archive: one unit with two classes,
\* two units with three classes and a file that is not a class, two units
\* with one class each
RuleCOutputs ==
    { (<<"smali">> :> FilesB) @@ NoClasses,
      (<<"smali">> :> FilesA) @@ (<<"smali_", "classes", "2">> :> FilesB) @@ NoClasses,
      (<<"smali">> :> FilesC) @@ (<<"smali_", "classes", "2">> :> FilesA) @@ NoClasses }

(***************************************************************************)
(* GpsPatcherThread                                                        *)
(***************************************************************************)
\* required_jars = ['baksmali.jar', 'smali.jar']
required_jars == {"baksmali.jar", "smali.jar"}

\* some jar of required_jars does not exist: if not os.path.exists(jar_path)
JarMissing == \E jar \in required_jars : jar \notin jars_present

\* the state after __init__, for an archive of at most maxNonUnits members
\* that are not units and at most maxUnits units, whose units disassemble to
\* one of outs
InitRun(maxNonUnits, maxUnits, outs) ==
    /\ pc = "start"
    /\ cancel_requested = FALSE
    /\ cancelAt = "never"
    /\ cancelInFlight = {}
    /\ overwrite_original \in BOOLEAN
    /\ same_path \in (IF overwrite_original THEN {TRUE} ELSE BOOLEAN)
    /\ jars_present \in SUBSET required_jars
    /\ archive_ok \in BOOLEAN
    /\ \E n \in 0..maxNonUnits, U \in SUBSET UnitNames :
          /\ Cardinality(U) <= maxUnits
          /\ members = [i \in 1..n |-> NonUnitName(i)] \o Sorted(U)
    /\ temp_dir = "none"
    /\ dex_files = <<>>
    /\ dtask = <<>>
    /\ smali_dirs_fs = {}
    /\ baksmali_out \in outs
    /\ smali_files = <<>>
    /\ ruleC_log = {}
    /\ toolFailed = FALSE
    /\ patched1 = FALSE
    /\ patched2 = FALSE
    /\ recompiled_dex_files = <<>>
    /\ rtask = <<>>
    /\ attempts = <<>>
    /\ inverted = {}
    /\ tempDex = <<>>
    /\ zi = 1
    /\ di = 1
    /\ copied_count = 0
    /\ destFile = Prior
    /\ tmpFile = Absent
    /\ tmpTouched = FALSE
    /\ ioFailed = FALSE
    /\ progress = <<>>
    /\ results = <<>>

InitPipe == InitRun(MaxNonUnits, MaxUnits, {NoClasses})

\* self.patch_finished.emit(False, ...); return   (inside the try: finally runs)
FailAndCleanup ==
    /\ results' = Append(results, "failure")
    /\ pc' = "finally"

\* cancel(): may be called by the UI thread at any time
AllDecompiled == pc = "decompile" /\ \A u \in DOMAIN dtask : dtask[u] = "ok"

\* the tasks whose external process is running
InFlight ==
    IF pc = "decompile" THEN {u \in DOMAIN dtask : dtask[u] = "running"}
    ELSE IF pc = "recompile" THEN {d \in DOMAIN rtask : rtask[d] \in {"with_api", "default"}}
    ELSE {}

\* cancel() also stops the external processes that are running
CancelKills ==
    /\ pc # "end"
    /\ ~cancel_requested
    /\ cancel_requested' = TRUE
    /\ cancelAt' = IF AllDecompiled THEN "decompile_all_ok" ELSE pc
    /\ cancelInFlight' = InFlight
    /\ dtask' = [u \in DOMAIN dtask |-> IF dtask[u] = "running" THEN "killed" ELSE dtask[u]]
    /\ rtask' = [d \in DOMAIN rtask |-> IF rtask[d] \in {"with_api", "default"} THEN "killed" ELSE rtask[d]]
    /\ UNCHANGED <<pc, overwrite_original, same_path, jars_present, baksmali_out, smali_files, ruleC_log, archive_ok, members,
                   temp_dir, dex_files, smali_dirs_fs, toolFailed,
                   patched1, patched2, recompiled_dex_files, attempts, inverted, tempDex,
                   zi, di, copied_count, destFile, tmpFile, tmpTouched,
                   ioFailed, progress, results>>

Cancel ==
    /\ pc # "end"
    /\ ~cancel_requested
    /\ cancel_requested' = TRUE
    /\ cancelAt' = IF AllDecompiled THEN "decompile_all_ok" ELSE pc
    /\ cancelInFlight' = InFlight
    /\ UNCHANGED <<pc, overwrite_original, same_path, jars_present, baksmali_out, smali_files, ruleC_log, archive_ok, members,
                   temp_dir, dex_files, dtask, smali_dirs_fs, toolFailed,
                   patched1, patched2, recompiled_dex_files, rtask, attempts, inverted, tempDex,
                   zi, di, copied_count, destFile, tmpFile, tmpTouched,
                   ioFailed, progress, results>>

\* run() without the dependency check
DepCheckSkipped ==
    /\ pc = "start"
    /\ pc' = "chk_start" /\ UNCHANGED results
    /\ UNCHANGED <<cancel_requested, cancelAt, cancelInFlight, overwrite_original, same_path, jars_present, baksmali_out, smali_files, ruleC_log,
                   archive_ok, members, temp_dir, dex_files, dtask,
                   smali_dirs_fs, toolFailed, patched1, patched2,
                   recompiled_dex_files, rtask, attempts, inverted, tempDex, zi, di, copied_count,
                   destFile, tmpFile, tmpTouched, ioFailed, progress>>

\* run(): dependency check
DepCheck ==
    /\ pc = "start"
    /\ IF ~JarMissing
       THEN pc' = "chk_start" /\ UNCHANGED results
       ELSE pc' = "end" /\ results' = Append(results, "failure")
    /\ UNCHANGED <<cancel_requested, cancelAt, cancelInFlight, overwrite_original, same_path, jars_present, baksmali_out, smali_files, ruleC_log,
                   archive_ok, members, temp_dir, dex_files, dtask,
                   smali_dirs_fs, toolFailed, patched1, patched2,
                   recompiled_dex_files, rtask, attempts, inverted, tempDex, zi, di, copied_count,
                   destFile, tmpFile, tmpTouched, ioFailed, progress>>

\* the checkpoints of run(): label -> label of the step that follows it
Checkpoints ==
    [chk_start |-> "mktemp", chk_scan |-> "extract", chk_decompile |-> "rulec",
     chk_rulec |-> "patch", chk_patch |-> "decide", chk_recompile |-> "repack_open"]

\* _check_cancel() with the flag never read
CancelObservedNever == FALSE

\* _check_cancel(): if self._cancel_requested
CancelObserved == cancel_requested

\* _check_cancel() emits cancelled but run() goes on (the return is missing)
CheckCancelNoReturn ==
    /\ pc \in DOMAIN Checkpoints
    /\ results' = IF CancelObserved THEN Append(results, "cancelled") ELSE results
    /\ pc' = Checkpoints[pc]
    /\ UNCHANGED <<cancel_requested, cancelAt, cancelInFlight, overwrite_original, same_path, jars_present, baksmali_out, smali_files, ruleC_log,
                   archive_ok, members, temp_dir, dex_files, dtask,
                   smali_dirs_fs, toolFailed, patched1, patched2,
                   recompiled_dex_files, rtask, attempts, inverted, tempDex, zi, di, copied_count,
                   destFile, tmpFile, tmpTouched, ioFailed, progress>>

\* if self._check_cancel(): return
CheckCancel ==
    /\ pc \in DOMAIN Checkpoints
    /\ IF CancelObserved
       THEN /\ results' = Append(results, "cancelled")
            /\ pc' = IF pc = "chk_start" THEN "end" ELSE "finally"
       ELSE /\ pc' = Checkpoints[pc]
            /\ UNCHANGED results
    /\ UNCHANGED <<cancel_requested, cancelAt, cancelInFlight, overwrite_original, same_path, jars_present, baksmali_out, smali_files, ruleC_log,
                   archive_ok, members, temp_dir, dex_files, dtask,
                   smali_dirs_fs, toolFailed, patched1, patched2,
                   recompiled_dex_files, rtask, attempts, inverted, tempDex, zi, di, copied_count,
                   destFile, tmpFile, tmpTouched, ioFailed, progress>>

\* progress 5, tempfile.mkdtemp
MkTemp ==
    /\ pc = "mktemp"
    /\ progress' = Append(progress, 5)
    /\ temp_dir' = "exists"
    /\ pc' = "scan"
    /\ UNCHANGED <<cancel_requested, cancelAt, cancelInFlight, overwrite_original, same_path, jars_present, baksmali_out, smali_files, ruleC_log,
                   archive_ok, members, dex_files, dtask, smali_dirs_fs,
                   toolFailed, patched1, patched2, recompiled_dex_files, rtask, attempts, inverted,
                   tempDex, zi, di, copied_count, destFile, tmpFile, tmpTouched,
                   ioFailed, results>>

\* the scan without the test of an empty unit list
ScanArchiveNoTest ==
    /\ pc = "scan"
    /\ IF ~archive_ok
       THEN \* zipfile.ZipFile raises: the exception leaves run() through finally
            /\ pc' = "finally"
            /\ UNCHANGED <<dex_files, progress, results>>
       ELSE LET found == Sorted({members[i] : i \in {j \in DOMAIN members : IsDexMember(members[j])}})
            IN IF FALSE
               THEN /\ FailAndCleanup
                    /\ UNCHANGED <<dex_files, progress>>
               ELSE /\ dex_files' = found
                    /\ progress' = Append(progress, 10)
                    /\ pc' = "chk_scan"
                    /\ UNCHANGED results
    /\ UNCHANGED <<cancel_requested, cancelAt, cancelInFlight, overwrite_original, same_path, jars_present, baksmali_out, smali_files, ruleC_log,
                   archive_ok, members, temp_dir, dtask, smali_dirs_fs,
                   toolFailed, patched1, patched2, recompiled_dex_files, rtask, attempts, inverted,
                   tempDex, zi, di, copied_count, destFile, tmpFile, tmpTouched,
                   ioFailed>>

\* open the archive, list the units, progress 10
ScanArchive ==
    /\ pc = "scan"
    /\ IF ~archive_ok
       THEN \* zipfile.ZipFile raises: the exception leaves run() through finally
            /\ pc' = "finally"
            /\ UNCHANGED <<dex_files, progress, results>>
       ELSE LET found == Sorted({members[i] : i \in {j \in DOMAIN members : IsDexMember(members[j])}})
            IN IF found = <<>>
               THEN /\ FailAndCleanup
                    /\ UNCHANGED <<dex_files, progress>>
               ELSE /\ dex_files' = found
                    /\ progress' = Append(progress, 10)
                    /\ pc' = "chk_scan"
                    /\ UNCHANGED results
    /\ UNCHANGED <<cancel_requested, cancelAt, cancelInFlight, overwrite_original, same_path, jars_present, baksmali_out, smali_files, ruleC_log,
                   archive_ok, members, temp_dir, dtask, smali_dirs_fs,
                   toolFailed, patched1, patched2, recompiled_dex_files, rtask, attempts, inverted,
                   tempDex, zi, di, copied_count, destFile, tmpFile, tmpTouched,
                   ioFailed>>

\* extract every unit, build decompile_tasks, submit them to the executor
Extract ==
    /\ pc = "extract"
    /\ dtask' = [u \in Range(dex_files) |-> "pending"]
    /\ pc' = "decompile"
    /\ UNCHANGED <<cancel_requested, cancelAt, cancelInFlight, overwrite_original, same_path, jars_present, baksmali_out, smali_files, ruleC_log,
                   archive_ok, members, temp_dir, dex_files, smali_dirs_fs,
                   toolFailed, patched1, patched2, recompiled_dex_files, rtask, attempts, inverted,
                   tempDex, zi, di, copied_count, destFile, tmpFile, tmpTouched,
                   ioFailed, progress, results>>

\* a pool worker picks up a decompile task
DecompileStart(u) ==
    /\ pc = "decompile"
    /\ dtask[u] = "pending"
    /\ dtask' = [dtask EXCEPT ![u] = "running"]
    /\ UNCHANGED <<pc, cancel_requested, cancelAt, cancelInFlight, overwrite_original, same_path,
                   jars_present, baksmali_out, smali_files, ruleC_log, archive_ok, members, temp_dir, dex_files,
                   smali_dirs_fs, toolFailed, patched1, patched2,
                   recompiled_dex_files, rtask, attempts, inverted, tempDex, zi, di, copied_count,
                   destFile, tmpFile, tmpTouched, ioFailed, progress, results>>

\* the output directory is named after the position in which the task returns
DecompileFinishByOrder(u) ==
    /\ pc = "decompile"
    /\ dtask[u] = "running"
    /\ \E ok \in BOOLEAN :
          /\ dtask' = [dtask EXCEPT ![u] = IF ok THEN "ok" ELSE "failed"]
          /\ smali_dirs_fs' = IF ok THEN smali_dirs_fs \cup {IF smali_dirs_fs = {} THEN <<"smali">> ELSE <<"smali_", "classes", "2">>}
                              ELSE smali_dirs_fs
          /\ toolFailed' = (toolFailed \/ ~ok)
          /\ smali_files' = IF ok /\ DOMAIN baksmali_out[OutputDirName(u)] # {}
                            THEN UnitFiles(OutputDirName(u)) @@ smali_files
                            ELSE smali_files
    /\ inverted' = IF \E v \in DOMAIN dtask : NameLess(v, u) /\ dtask[v] \in {"pending", "running"}
                   THEN inverted \cup {"decompile"}
                   ELSE inverted
    /\ UNCHANGED <<pc, cancel_requested, cancelAt, cancelInFlight, overwrite_original, same_path,
                   jars_present, baksmali_out, ruleC_log, archive_ok, members, temp_dir, dex_files,
                   patched1, patched2, recompiled_dex_files, rtask, attempts, tempDex,
                   zi, di, copied_count, destFile, tmpFile, tmpTouched,
                   ioFailed, progress, results>>

\* run_command(baksmali d <dex> -o <output_path>) returns
DecompileFinish(u) ==
    /\ pc = "decompile"
    /\ dtask[u] = "running"
    /\ \E ok \in BOOLEAN :
          /\ dtask' = [dtask EXCEPT ![u] = IF ok THEN "ok" ELSE "failed"]
          /\ smali_dirs_fs' = IF ok THEN smali_dirs_fs \cup {OutputDirName(u)}
                              ELSE smali_dirs_fs
          /\ toolFailed' = (toolFailed \/ ~ok)
          /\ smali_files' = IF ok /\ DOMAIN baksmali_out[OutputDirName(u)] # {}
                            THEN UnitFiles(OutputDirName(u)) @@ smali_files
                            ELSE smali_files
    /\ inverted' = IF \E v \in DOMAIN dtask : NameLess(v, u) /\ dtask[v] \in {"pending", "running"}
                   THEN inverted \cup {"decompile"}
                   ELSE inverted
    /\ UNCHANGED <<pc, cancel_requested, cancelAt, cancelInFlight, overwrite_original, same_path,
                   jars_present, baksmali_out, ruleC_log, archive_ok, members, temp_dir, dex_files,
                   patched1, patched2, recompiled_dex_files, rtask, attempts, tempDex,
                   zi, di, copied_count, destFile, tmpFile, tmpTouched,
                   ioFailed, progress, results>>

\* the stage fails only when no disassembly task succeeded
DecompileJoinAny ==
    /\ pc = "decompile"
    /\ \A u \in DOMAIN dtask : dtask[u] \in {"ok", "failed"}
    /\ IF \A u \in DOMAIN dtask : dtask[u] = "failed"
       THEN FailAndCleanup
       ELSE pc' = "chk_decompile" /\ UNCHANGED results
    /\ UNCHANGED <<cancel_requested, cancelAt, cancelInFlight, overwrite_original, same_path, jars_present, baksmali_out, smali_files, ruleC_log,
                   archive_ok, members, temp_dir, dex_files, dtask,
                   smali_dirs_fs, toolFailed, patched1, patched2,
                   recompiled_dex_files, rtask, attempts, inverted, tempDex, zi, di, copied_count,
                   destFile, tmpFile, tmpTouched, ioFailed, progress>>

\* if not all(list(executor.map(self.run_command, decompile_tasks))): fail
DecompileJoin ==
    /\ pc = "decompile"
    /\ \A u \in DOMAIN dtask : dtask[u] \in {"ok", "failed"}
    /\ IF \E u \in DOMAIN dtask : dtask[u] = "failed"
       THEN FailAndCleanup
       ELSE pc' = "chk_decompile" /\ UNCHANGED results
    /\ UNCHANGED <<cancel_requested, cancelAt, cancelInFlight, overwrite_original, same_path, jars_present, baksmali_out, smali_files, ruleC_log,
                   archive_ok, members, temp_dir, dex_files, dtask,
                   smali_dirs_fs, toolFailed, patched1, patched2,
                   recompiled_dex_files, rtask, attempts, inverted, tempDex, zi, di, copied_count,
                   destFile, tmpFile, tmpTouched, ioFailed, progress>>

\* the sweep stops at the first file that cannot be processed
RemoveDebugLinesAbort ==
    /\ pc = "rulec"
    /\ progress' = progress \o <<40, 50>>
    /\ \E o \in [{p \in DOMAIN smali_files : IsSmaliFile(p)} -> RuleCOutcomes] :
          /\ smali_files' = [p \in DOMAIN smali_files |->
                                IF IsSmaliFile(p) /\ \A q \in DOMAIN o : o[q] = "ok"
                                THEN RewriteFile(smali_files[p], o[p])
                                ELSE smali_files[p]]
          /\ ruleC_log' = {p \in DOMAIN o : o[p] # "ok"}
    /\ pc' = "chk_rulec"
    /\ UNCHANGED <<cancel_requested, cancelAt, cancelInFlight, overwrite_original, same_path, jars_present, baksmali_out,
                   archive_ok, members, temp_dir, dex_files, dtask,
                   smali_dirs_fs, toolFailed, patched1, patched2,
                   recompiled_dex_files, rtask, attempts, inverted, tempDex, zi, di, copied_count,
                   destFile, tmpFile, tmpTouched, ioFailed, results>>

\* progress 40, remove_debug_lines, progress 50
RemoveDebugLines ==
    /\ pc = "rulec"
    /\ progress' = progress \o <<40, 50>>
    /\ \E o \in [{p \in DOMAIN smali_files : IsSmaliFile(p)} -> RuleCOutcomes] :
          /\ smali_files' = [p \in DOMAIN smali_files |->
                                IF IsSmaliFile(p) THEN RewriteFile(smali_files[p], o[p])
                                ELSE smali_files[p]]
          /\ ruleC_log' = {p \in DOMAIN o : o[p] # "ok"}
    /\ pc' = "chk_rulec"
    /\ UNCHANGED <<cancel_requested, cancelAt, cancelInFlight, overwrite_original, same_path, jars_present, baksmali_out,
                   archive_ok, members, temp_dir, dex_files, dtask,
                   smali_dirs_fs, toolFailed, patched1, patched2,
                   recompiled_dex_files, rtask, attempts, inverted, tempDex, zi, di, copied_count,
                   destFile, tmpFile, tmpTouched, ioFailed, results>>

\* patched1 = patch_system_app_ops_helper(..); patched2 = patch_mock_location_provider(..)
PatchRules ==
    /\ pc = "patch"
    /\ \E p1 \in BOOLEAN, p2 \in BOOLEAN :
          /\ patched1' = p1
          /\ patched2' = p2
    /\ progress' = Append(progress, 60)
    /\ pc' = "chk_patch"
    /\ UNCHANGED <<cancel_requested, cancelAt, cancelInFlight, overwrite_original, same_path, jars_present, baksmali_out, smali_files, ruleC_log,
                   archive_ok, members, temp_dir, dex_files, dtask,
                   smali_dirs_fs, toolFailed, recompiled_dex_files, rtask, attempts, inverted,
                   tempDex, zi, di, copied_count, destFile, tmpFile, tmpTouched,
                   ioFailed, results>>

\* dict filled in the order of sorted(smali_dirs): a repeated key keeps its place
RECURSIVE DictKeys(_)
DictKeys(dirs) ==
    IF dirs = <<>> THEN <<>>
    ELSE LET k == DexName(Head(dirs))
         IN <<k>> \o RemoveAll(DictKeys(Tail(dirs)), k)

\* the pass criterion written with "or": both rules required
NoRuleAppliedEither == ~patched1 \/ ~patched2

\* if not patched1 and not patched2
NoRuleApplied == ~patched1 /\ ~patched2

\* pass criterion, then the recompile tasks are built and submitted
Decide ==
    /\ pc = "decide"
    /\ IF NoRuleApplied
       THEN /\ FailAndCleanup
            /\ UNCHANGED <<recompiled_dex_files, rtask, attempts>>
       ELSE LET dirs == Sorted({d \in smali_dirs_fs : IsSmaliDir(d)})
            IN /\ recompiled_dex_files' = DictKeys(dirs)
               /\ rtask' = [d \in Range(dirs) |-> "pending"]
               /\ attempts' = [d \in Range(dirs) |-> <<>>]
               /\ pc' = "recompile"
               /\ UNCHANGED results
    /\ UNCHANGED <<cancel_requested, cancelAt, cancelInFlight, overwrite_original, same_path, jars_present, baksmali_out, smali_files, ruleC_log,
                   archive_ok, members, temp_dir, dex_files, dtask,
                   smali_dirs_fs, toolFailed, patched1, patched2, inverted,
                   tempDex, zi, di, copied_count, destFile, tmpFile, tmpTouched,
                   ioFailed, progress>>

\* a pool worker picks up a recompile task: run_command(task['with_api'])
RecompileStart(d) ==
    /\ pc = "recompile"
    /\ rtask[d] = "pending"
    /\ rtask' = [rtask EXCEPT ![d] = "with_api"]
    /\ UNCHANGED <<pc, cancel_requested, cancelAt, cancelInFlight, overwrite_original, same_path,
                   jars_present, baksmali_out, smali_files, ruleC_log, archive_ok, members, temp_dir, dex_files,
                   dtask, smali_dirs_fs, toolFailed, patched1, patched2,
                   recompiled_dex_files, attempts, inverted, tempDex, zi, di, copied_count,
                   destFile, tmpFile, tmpTouched, ioFailed, progress, results>>

\* a recompile task submitted before d has not returned yet
EarlierTaskRuns(d) ==
    \E e \in DOMAIN rtask : NameLess(e, d) /\ rtask[e] \notin {"ok", "failed"}

\* smali writes its output file temp_dir/<dex_name>
SmaliOutput(d) == (DexName(d) :> NewBytes(d)) @@ tempDex

\* run_command(task['with_api']) returns; its result is the task's result
RecompileApiFinishNoRetry(d) ==
    /\ pc = "recompile"
    /\ rtask[d] = "with_api"
    /\ \E ok \in BOOLEAN :
          /\ rtask' = [rtask EXCEPT ![d] = IF ok THEN "ok" ELSE "failed"]
          /\ attempts' = [attempts EXCEPT ![d] = Append(@, <<"with_api", ok>>)]
          /\ inverted' = IF EarlierTaskRuns(d)
                         THEN inverted \cup {"recompile"}
                         ELSE inverted
          /\ tempDex' = IF ok THEN SmaliOutput(d) ELSE tempDex
          /\ toolFailed' = (toolFailed \/ ~ok)
    /\ UNCHANGED <<pc, cancel_requested, cancelAt, cancelInFlight, overwrite_original, same_path,
                   jars_present, baksmali_out, smali_files, ruleC_log, archive_ok, members, temp_dir, dex_files,
                   dtask, smali_dirs_fs, patched1, patched2,
                   recompiled_dex_files, zi, di, copied_count, destFile,
                   tmpFile, tmpTouched, ioFailed, progress, results>>

\* run_command(task['with_api']) returns; on failure the default command is started
RecompileApiFinish(d) ==
    /\ pc = "recompile"
    /\ rtask[d] = "with_api"
    /\ \E ok \in BOOLEAN :
          /\ rtask' = [rtask EXCEPT ![d] = IF ok THEN "ok" ELSE "default"]
          /\ attempts' = [attempts EXCEPT ![d] = Append(@, <<"with_api", ok>>)]
          /\ inverted' = IF ok /\ EarlierTaskRuns(d)
                         THEN inverted \cup {"recompile"}
                         ELSE inverted
          /\ tempDex' = IF ok THEN SmaliOutput(d) ELSE tempDex
          /\ toolFailed' = (toolFailed \/ ~ok)
    /\ UNCHANGED <<pc, cancel_requested, cancelAt, cancelInFlight, overwrite_original, same_path,
                   jars_present, baksmali_out, smali_files, ruleC_log, archive_ok, members, temp_dir, dex_files,
                   dtask, smali_dirs_fs, patched1, patched2,
                   recompiled_dex_files, zi, di, copied_count, destFile,
                   tmpFile, tmpTouched, ioFailed, progress, results>>

\* run_command(task['default']) returns
RecompileDefaultFinish(d) ==
    /\ pc = "recompile"
    /\ rtask[d] = "default"
    /\ \E ok \in BOOLEAN :
          /\ rtask' = [rtask EXCEPT ![d] = IF ok THEN "ok" ELSE "failed"]
          /\ attempts' = [attempts EXCEPT ![d] = Append(@, <<"default", ok>>)]
          /\ inverted' = IF EarlierTaskRuns(d)
                         THEN inverted \cup {"recompile"}
                         ELSE inverted
          /\ tempDex' = IF ok THEN SmaliOutput(d) ELSE tempDex
          /\ toolFailed' = (toolFailed \/ ~ok)
    /\ UNCHANGED <<pc, cancel_requested, cancelAt, cancelInFlight, overwrite_original, same_path,
                   jars_present, baksmali_out, smali_files, ruleC_log, archive_ok, members, temp_dir, dex_files,
                   dtask, smali_dirs_fs, patched1, patched2,
                   recompiled_dex_files, zi, di, copied_count, destFile,
                   tmpFile, tmpTouched, ioFailed, progress, results>>

\* run() goes on without waiting for the reassembly tasks still running
RecompileJoinNoWait ==
    /\ pc = "recompile"
    /\ IF \E d \in DOMAIN rtask : rtask[d] = "failed"
       THEN FailAndCleanup
       ELSE pc' = "chk_recompile" /\ UNCHANGED results
    /\ UNCHANGED <<cancel_requested, cancelAt, cancelInFlight, overwrite_original, same_path, jars_present, baksmali_out, smali_files, ruleC_log,
                   archive_ok, members, temp_dir, dex_files, dtask,
                   smali_dirs_fs, toolFailed, patched1, patched2,
                   recompiled_dex_files, rtask, attempts, inverted, tempDex, zi, di, copied_count,
                   destFile, tmpFile, tmpTouched, ioFailed, progress>>

\* if not all(list(executor.map(run_recompile_task, recompile_tasks))): fail
RecompileJoin ==
    /\ pc = "recompile"
    /\ \A d \in DOMAIN rtask : rtask[d] \in {"ok", "failed"}
    /\ IF \E d \in DOMAIN rtask : rtask[d] = "failed"
       THEN FailAndCleanup
       ELSE pc' = "chk_recompile" /\ UNCHANGED results
    /\ UNCHANGED <<cancel_requested, cancelAt, cancelInFlight, overwrite_original, same_path, jars_present, baksmali_out, smali_files, ruleC_log,
                   archive_ok, members, temp_dir, dex_files, dtask,
                   smali_dirs_fs, toolFailed, patched1, patched2,
                   recompiled_dex_files, rtask, attempts, inverted, tempDex, zi, di, copied_count,
                   destFile, tmpFile, tmpTouched, ioFailed, progress>>

\* zipfile.ZipFile(output_path, 'w') of the side-output branch has truncated
\* the file zin reads from: output_path is self.input_file
InputTruncated == ~overwrite_original /\ same_path /\ destFile # Prior

\* the archive being written: the .tmp sibling (overwrite) or output_path itself
OutEntries == IF overwrite_original THEN tmpFile.entries ELSE destFile.entries

WriteOut(e) ==
    IF overwrite_original
    THEN tmpFile' = Partial(e) /\ tmpTouched' = TRUE /\ UNCHANGED destFile
    ELSE destFile' = Partial(e) /\ UNCHANGED <<tmpFile, tmpTouched>>

\* progress 90; zipfile.ZipFile(temp_zip_path | output_path, 'w')
RepackOpen ==
    /\ pc = "repack_open"
    /\ progress' = Append(progress, 90)
    /\ WriteOut(<<>>)
    /\ zi' = 1
    /\ copied_count' = 0
    /\ pc' = "copy"
    /\ UNCHANGED <<cancel_requested, cancelAt, cancelInFlight, overwrite_original, same_path, jars_present, baksmali_out, smali_files, ruleC_log,
                   archive_ok, members, temp_dir, dex_files, dtask,
                   smali_dirs_fs, toolFailed, patched1, patched2,
                   recompiled_dex_files, rtask, attempts, inverted, tempDex, di, ioFailed, results>>

\* original_dex_files = {f for f in zin.namelist() if f.startswith('classes') and f.endswith('.dex')}
original_dex_files == {members[i] : i \in {j \in DOMAIN members : IsDexMember(members[j])}}

total_items == Cardinality({i \in DOMAIN members : members[i] \notin original_dex_files})

\* the percentage computed from the share of members copied alone
RepackProgressShare(copied, total) == (copied * 100) \div total

\* progress = 90 + int(copied_count * 8 / total_items) if total_items > 0 else 90
RepackProgress(copied, total) ==
    IF total > 0 THEN 90 + (copied * 8) \div total ELSE 90

\* one iteration of: for item in zin.infolist()
CopyMember ==
    /\ pc = "copy"
    /\ zi <= Len(members)
    /\ zi' = zi + 1
    /\ IF members[zi] \notin original_dex_files
       THEN /\ ~InputTruncated   \* else zin.open(item) raises: RepackFail
            /\ WriteOut(Append(OutEntries, <<members[zi], OrigBytes(members[zi])>>))
            /\ copied_count' = copied_count + 1
            /\ progress' = IF (copied_count + 1) % 10 = 0
                           THEN Append(progress, RepackProgress(copied_count + 1, total_items))
                           ELSE progress
       ELSE UNCHANGED <<destFile, tmpFile, tmpTouched, copied_count, progress>>
    /\ UNCHANGED <<pc, cancel_requested, cancelAt, cancelInFlight, overwrite_original, same_path,
                   jars_present, baksmali_out, smali_files, ruleC_log, archive_ok, members, temp_dir, dex_files,
                   dtask, smali_dirs_fs, toolFailed, patched1, patched2,
                   recompiled_dex_files, rtask, attempts, inverted, tempDex, di, ioFailed, results>>

\* the copy loop is over
CopyDone ==
    /\ pc = "copy"
    /\ zi > Len(members)
    /\ di' = 1
    /\ pc' = "write_dex"
    /\ UNCHANGED <<cancel_requested, cancelAt, cancelInFlight, overwrite_original, same_path, jars_present, baksmali_out, smali_files, ruleC_log,
                   archive_ok, members, temp_dir, dex_files, dtask,
                   smali_dirs_fs, toolFailed, patched1, patched2,
                   recompiled_dex_files, rtask, attempts, inverted, tempDex, zi, copied_count,
                   destFile, tmpFile, tmpTouched, ioFailed, progress, results>>

\* one iteration of: for dex_name, dex_path in recompiled_dex_files.items(): zout.write
WriteDex ==
    /\ pc = "write_dex"
    /\ di <= Len(recompiled_dex_files)
    /\ LET dex_name == recompiled_dex_files[di]
       IN WriteOut(Append(OutEntries, <<dex_name, tempDex[dex_name]>>))
    /\ di' = di + 1
    /\ UNCHANGED <<pc, cancel_requested, cancelAt, cancelInFlight, overwrite_original, same_path,
                   jars_present, baksmali_out, smali_files, ruleC_log, archive_ok, members, temp_dir, dex_files,
                   dtask, smali_dirs_fs, toolFailed, patched1, patched2,
                   recompiled_dex_files, rtask, attempts, inverted, tempDex, zi, copied_count,
                   ioFailed, progress, results>>

\* the archives are closed and the .tmp sibling is left beside the original
RepackCloseNoMove ==
    /\ pc = "write_dex"
    /\ di > Len(recompiled_dex_files)
    /\ IF overwrite_original
       THEN /\ tmpFile' = Zip(tmpFile.entries)
            /\ UNCHANGED destFile
       ELSE /\ destFile' = Zip(destFile.entries)
            /\ UNCHANGED tmpFile
    /\ pc' = "emit_success"
    /\ UNCHANGED <<cancel_requested, cancelAt, cancelInFlight, overwrite_original, same_path, jars_present, baksmali_out, smali_files, ruleC_log,
                   archive_ok, members, temp_dir, dex_files, dtask,
                   smali_dirs_fs, toolFailed, patched1, patched2,
                   recompiled_dex_files, rtask, attempts, inverted, tempDex, zi, di, copied_count,
                   tmpTouched, ioFailed, progress, results>>

\* both archives are closed; overwrite mode: shutil.move(temp_zip_path, output_path)
RepackClose ==
    /\ pc = "write_dex"
    /\ di > Len(recompiled_dex_files)
    /\ IF overwrite_original
       THEN /\ destFile' = Zip(tmpFile.entries)
            /\ tmpFile' = Absent
       ELSE /\ destFile' = Zip(destFile.entries)
            /\ UNCHANGED tmpFile
    /\ pc' = "emit_success"
    /\ UNCHANGED <<cancel_requested, cancelAt, cancelInFlight, overwrite_original, same_path, jars_present, baksmali_out, smali_files, ruleC_log,
                   archive_ok, members, temp_dir, dex_files, dtask,
                   smali_dirs_fs, toolFailed, patched1, patched2,
                   recompiled_dex_files, rtask, attempts, inverted, tempDex, zi, di, copied_count,
                   tmpTouched, ioFailed, progress, results>>

\* except Exception as e: (a read or write of the repack raised)
RepackFail ==
    /\ pc \in {"repack_open", "copy", "write_dex"}
    /\ ioFailed' = TRUE
    /\ IF overwrite_original
       THEN tmpFile' = Absent   \* if os.path.exists(temp_zip_path): os.remove(temp_zip_path)
       ELSE UNCHANGED tmpFile
    /\ FailAndCleanup
    /\ progress' = IF pc = "repack_open" THEN Append(progress, 90) ELSE progress
    /\ UNCHANGED <<cancel_requested, cancelAt, cancelInFlight, overwrite_original, same_path, jars_present, baksmali_out, smali_files, ruleC_log,
                   archive_ok, members, temp_dir, dex_files, dtask,
                   smali_dirs_fs, toolFailed, patched1, patched2,
                   recompiled_dex_files, rtask, attempts, inverted, tempDex, zi, di, copied_count,
                   destFile, tmpTouched>>

\* progress 100; patch_finished.emit(True, success_message)
EmitSuccess ==
    /\ pc = "emit_success"
    /\ progress' = Append(progress, 100)
    /\ results' = Append(results, "success")
    /\ pc' = "finally"
    /\ UNCHANGED <<cancel_requested, cancelAt, cancelInFlight, overwrite_original, same_path, jars_present, baksmali_out, smali_files, ruleC_log,
                   archive_ok, members, temp_dir, dex_files, dtask,
                   smali_dirs_fs, toolFailed, patched1, patched2,
                   recompiled_dex_files, rtask, attempts, inverted, tempDex, zi, di, copied_count,
                   destFile, tmpFile, tmpTouched, ioFailed>>

\* run() returns without the finally clause removing temp_dir
FinallyNoCleanup ==
    /\ pc = "finally"
    /\ pc' = "end"
    /\ UNCHANGED <<cancel_requested, cancelAt, cancelInFlight, overwrite_original, same_path, jars_present, baksmali_out, smali_files, ruleC_log,
                   archive_ok, members, temp_dir, dex_files, dtask,
                   smali_dirs_fs, toolFailed, patched1, patched2,
                   recompiled_dex_files, rtask, attempts, inverted, tempDex, zi, di, copied_count,
                   destFile, tmpFile, tmpTouched, ioFailed, progress, results>>

\* finally: shutil.rmtree(temp_dir)
Finally ==
    /\ pc = "finally"
    /\ temp_dir' = "removed"
    /\ pc' = "end"
    /\ UNCHANGED <<cancel_requested, cancelAt, cancelInFlight, overwrite_original, same_path, jars_present, baksmali_out, smali_files, ruleC_log,
                   archive_ok, members, dex_files, dtask, smali_dirs_fs,
                   toolFailed, patched1, patched2, recompiled_dex_files, rtask, attempts, inverted,
                   tempDex, zi, di, copied_count, destFile, tmpFile, tmpTouched,
                   ioFailed, progress, results>>

(***************************************************************************)
(* Properties of the pipeline (checked under Spec).                        *)
(***************************************************************************)
Done == pc = "end"

\* the rules A and B have been applied (progress 60 follows them)
RulesApplied == \E i \in DOMAIN progress : progress[i] = 60

DestinationUntouched == destFile = Prior /\ tmpFile = Absent /\ ~tmpTouched

\* C1 as stated: in a finished run in which no external tool invocation failed
\* and cancel() was never called, the result is success exactly if rule A or
\* rule B reported a match; with no match the run ends in failure and nothing
\* is written to the destination.
C1_PassCriterionAsStated ==
    (Done /\ ~toolFailed /\ cancelAt = "never") =>
        /\ ("success" \in Range(results)) <=> (patched1 \/ patched2)
        /\ (RulesApplied /\ ~patched1 /\ ~patched2) =>
               (results = <<"failure">> /\ DestinationUntouched)

\* C1 (amended): the same, for runs in which repacking raises no exception.
C1_PassCriterion ==
    (Done /\ ~toolFailed /\ cancelAt = "never" /\ ~ioFailed) =>
        /\ ("success" \in Range(results)) <=> (patched1 \/ patched2)
        /\ (RulesApplied /\ ~patched1 /\ ~patched2) =>
               (results = <<"failure">> /\ DestinationUntouched)

C1_Witness ==
    /\ Done /\ ~toolFailed /\ cancelAt = "never" /\ ~ioFailed
    /\ ~patched1 /\ patched2
    /\ results = <<"success">>

\* C2: a cancel() called once every disassembly task has finished successfully
\* and before remove_debug_lines starts ends the run with the cancelled event
\* alone, and the destination path is not modified.
C2_CancelBeforePatching ==
    (Done /\ cancelAt \in {"decompile_all_ok", "chk_decompile", "rulec"}) =>
        (results = <<"cancelled">> /\ DestinationUntouched)

C2_Witness ==
    Done /\ cancelAt = "chk_decompile" /\ results = <<"cancelled">>

\* the output archive of a successful run
OutNames == [i \in DOMAIN destFile.entries |-> destFile.entries[i][1]]

\* C7: after a successful run the output archive has as many members as the
\* input, no name twice, each non-unit member with its original bytes and each
\* unit name exactly once with the bytes reassembled from its directory.
C7_RepackMembers ==
    (Done /\ results = <<"success">>) =>
        /\ destFile.kind = "zip"
        /\ Len(destFile.entries) = Len(members)
        /\ \A i, j \in DOMAIN OutNames : i # j => OutNames[i] # OutNames[j]
        /\ \A k \in DOMAIN members :
              LET name == members[k]
              IN IF IsDexMember(name)
                 THEN <<name, NewBytes(OutputDirName(name))>> \in Range(destFile.entries)
                 ELSE <<name, OrigBytes(name)>> \in Range(destFile.entries)

\* C10: once the cancelled event is emitted it is the only terminal event of
\* the run, and neither the destination path nor its .tmp sibling has been or
\* is written.
C10_CancelledWritesNothing ==
    ("cancelled" \in Range(results)) =>
        (results = <<"cancelled">> /\ DestinationUntouched)

C10_Witness ==
    Done /\ cancelAt = "recompile" /\ results = <<"cancelled">>

\* C11: a run that has created the temporary directory has removed it when it
\* ends, on every exit path (any result, a cancellation at any checkpoint, an
\* exception that leaves run() without a result); and the directory exists
\* only while run() is between mkdtemp and the end of the finally clause.
C11_TempDirRemoved ==
    /\ Done => temp_dir \in {"none", "removed"}
    /\ temp_dir = "exists" => pc \notin {"start", "chk_start", "mktemp", "end"}
    /\ (Done /\ \E i \in DOMAIN progress : progress[i] = 5) => temp_dir = "removed"

\* the exit path of an exception: the archive cannot be opened
C11_Witness ==
    Done /\ ~archive_ok /\ temp_dir = "removed" /\ results = <<>>

\* C12: a run emits exactly one terminal event, a result or the cancellation
\* marker: never two, and never none once run() has returned, whatever stage
\* it stopped in.
C12_OneTerminalEvent ==
    /\ Len(results) <= 1
    /\ Done => Len(results) = 1

\* C13: in both output modes the archive is written to a temporary file and
\* the destination is replaced only when every member has been written; when
\* a step of the repack raises, the run fails, no temporary file is left and
\* the destination holds what it held before the run.
C13_AtomicRepack ==
    /\ pc \in {"copy", "write_dex"} => destFile = Prior
    /\ (Done /\ ioFailed) =>
          /\ results = <<"failure">>
          /\ tmpFile = Absent
          /\ destFile = Prior

\* C14: a cancellation requested before the run has crossed its last stage
\* boundary (the end of repacking) stops the run with the cancellation event:
\* in a run in which no stage fails by itself, the only terminal event is
\* then "cancelled".
C14_CancelAtEveryBoundary ==
    (/\ Done
     /\ cancelAt \notin {"never", "emit_success", "finally"}
     /\ archive_ok
     /\ "failure" \notin Range(results)) =>
        results = <<"cancelled">>

\* C17: the progress percentages of a run are all between 0 and 100 and
\* never decrease in emission order, the updates emitted after every tenth
\* copied member included, for every number of members.
C17_ProgressMonotonic ==
    /\ \A i \in DOMAIN progress : progress[i] \in 0..100
    /\ \A i, j \in DOMAIN progress : i < j => progress[i] <= progress[j]

\* a successful run on an archive with twenty members that are not units
C17_Witness ==
    /\ Done /\ results = <<"success">>
    /\ total_items = 20
    /\ progress = <<5, 10, 40, 50, 60, 90, 94, 98, 100>>

\* the file at self.input_file holds what it held before the run
InputUnmodified == same_path => destFile = Prior

\* C19: in side-output mode the patched archive is the file written at
\* output_path = patched_dir/basename(input_file), and the input archive file
\* is never modified by the run.
C19_SideOutputKeepsInput ==
    ~overwrite_original =>
        /\ InputUnmodified
        /\ (Done /\ results = <<"success">>) => destFile.kind = "zip"

\* some disassembly task has failed
SomeDecompileFailed == \E u \in DOMAIN dtask : dtask[u] = "failed"

\* C20: once a disassembly task has failed the run can only end in failure:
\* no rule (C, A or B) is applied, no reassembly task is started and nothing
\* is written to the destination or its .tmp sibling.
C20_DisassemblyAllOrNothing ==
    SomeDecompileFailed =>
        /\ pc \in {"decompile", "finally", "end"}
        /\ pc # "decompile" => results = <<"failure">>
        /\ \A i \in DOMAIN progress : progress[i] \in {5, 10}
        /\ ~patched1 /\ ~patched2
        /\ rtask = <<>> /\ recompiled_dex_files = <<>>
        /\ DestinationUntouched

\* one task failed while another succeeded
C20_Witness ==
    /\ Done /\ SomeDecompileFailed
    /\ \E u \in DOMAIN dtask : dtask[u] = "ok"
    /\ results = <<"failure">>

\* every disassembly / reassembly task of the run has returned
DTasksOver == \A u \in DOMAIN dtask : dtask[u] \in {"ok", "failed"}
RTasksOver == \A d \in DOMAIN rtask : rtask[d] \in {"ok", "failed"}

\* rule C has started (progress 40 precedes it); the repack has started
PatchingStarted == \E i \in DOMAIN progress : progress[i] = 40
RepackStarted == \E i \in DOMAIN progress : progress[i] = 90

\* C21: stage boundaries are synchronization points: no patching step starts
\* while a disassembly task is pending or running, reassembly tasks exist only
\* once rules A and B have returned, and repacking starts only when every
\* reassembly task has returned.
C21_StageBarriers ==
    /\ (PatchingStarted \/ pc \in {"chk_decompile", "rulec"}) =>
           (DOMAIN dtask # {} /\ DTasksOver)
    /\ pc \in {"chk_decompile", "rulec", "chk_rulec", "patch"} => DOMAIN rtask = {}
    /\ DOMAIN rtask # {} => RulesApplied
    /\ (RepackStarted \/ pc \in {"chk_recompile", "repack_open"}
          \/ destFile # Prior \/ tmpTouched) =>
           (DOMAIN rtask # {} /\ RTasksOver)

\* the repack runs after two disassembly and two reassembly tasks
C21_Witness ==
    /\ pc = "copy"
    /\ Cardinality(DOMAIN dtask) = 2 /\ DTasksOver
    /\ Cardinality(DOMAIN rtask) = 2 /\ RTasksOver

\* both attempts of some reassembly task have failed
BothAttemptsFailed(d) == attempts[d] = << <<"with_api", FALSE>>, <<"default", FALSE>> >>

\* C22: each reassembly task runs the command with API level 33 first and the
\* command without an API level only after that one has failed: at most two
\* attempts per unit; the unit succeeds exactly if one of them succeeds; when
\* both fail the stage and the run fail and nothing is written to the
\* destination.
C22_ReassemblyFallback ==
    \A d \in DOMAIN rtask :
        /\ attempts[d] \in { <<>>,
                             << <<"with_api", TRUE>> >>,
                             << <<"with_api", FALSE>> >>,
                             << <<"with_api", FALSE>>, <<"default", TRUE>> >>,
                             << <<"with_api", FALSE>>, <<"default", FALSE>> >> }
        /\ rtask[d] \in {"pending", "with_api"} <=> attempts[d] = <<>>
        /\ rtask[d] = "default" <=> attempts[d] = << <<"with_api", FALSE>> >>
        /\ rtask[d] = "ok" <=> (attempts[d] # <<>> /\ Last(attempts[d])[2])
        /\ rtask[d] = "failed" <=> BothAttemptsFailed(d)
        /\ BothAttemptsFailed(d) =>
              /\ pc \in {"recompile", "finally", "end"}
              /\ pc # "recompile" => results = <<"failure">>
              /\ DestinationUntouched

\* a run that failed because both attempts of one unit failed, while another
\* unit was reassembled by the fallback attempt
C22_Witness ==
    /\ Done /\ results = <<"failure">>
    /\ \E d \in DOMAIN rtask : BothAttemptsFailed(d)
    /\ \E d \in DOMAIN rtask :
          attempts[d] = << <<"with_api", FALSE>>, <<"default", TRUE>> >>

\* the member names the output archive must hold, computed from the input
\* archive alone: the other members in their order, then the unit names in
\* the order of the sorted disassembly directories
ExpectedUnitNames ==
    DictKeys(Sorted({OutputDirName(members[i]) :
                        i \in {j \in DOMAIN members : IsDexMember(members[j])}}))

ExpectedNames ==
    SelectSeq(members, LAMBDA m : ~IsDexMember(m)) \o ExpectedUnitNames

\* C23: the names of the output units and the members of the output archive
\* depend on the input archive only, whatever the order in which the parallel
\* disassembly tasks and the parallel reassembly tasks return.
C23_NamesIndependentOfOrder ==
    /\ pc \in {"recompile", "chk_recompile", "repack_open", "copy", "write_dex",
               "emit_success"} => recompiled_dex_files = ExpectedUnitNames
    /\ (Done /\ results = <<"success">>) =>
           /\ recompiled_dex_files = ExpectedUnitNames
           /\ OutNames = ExpectedNames

\* a successful run in which, in both stages, a task returned before a task
\* submitted earlier
C23_Witness ==
    /\ Done /\ results = <<"success">>
    /\ inverted = {"decompile", "recompile"}
    /\ Len(recompiled_dex_files) = 2

\* the tasks of the stage that was running when cancel() was called
StageTasks == IF cancelAt = "decompile" THEN dtask ELSE rtask

StageFailed == \E t \in DOMAIN StageTasks : StageTasks[t] = "failed"

\* no task that was running when cancel() was called has been stopped: it is
\* still running or it has returned
NoTaskKilled ==
    \A t \in cancelInFlight :
        StageTasks[t] \in {"running", "with_api", "default", "ok", "failed"}

\* every task of the stage has returned and the run has not gone past the
\* checkpoint that follows the stage
StageRanToCompletion ==
    /\ \A t \in DOMAIN StageTasks : StageTasks[t] \in {"ok", "failed"}
    /\ IF cancelAt = "decompile" THEN ~PatchingStarted ELSE ~RepackStarted
    /\ DestinationUntouched

\* C24 as stated: a cancellation requested while tasks are in flight kills no
\* external process, every task of the stage runs to completion and the run
\* ends with the cancellation event.
C24_CancelInFlightAsStated ==
    cancelInFlight # {} =>
        /\ NoTaskKilled
        /\ Done => (StageRanToCompletion /\ results = <<"cancelled">>)

\* C24 (amended): the same, the run ending with the cancellation event when
\* every task of the stage succeeds and with the failure result when one fails.
C24_CancelInFlight ==
    cancelInFlight # {} =>
        /\ NoTaskKilled
        /\ Done =>
              /\ StageRanToCompletion
              /\ results = IF StageFailed THEN <<"failure">> ELSE <<"cancelled">>

\* cancel() called while both reassembly tasks were running; one of them then
\* made its second attempt, and the run ended with the cancellation event
C24_Witness ==
    /\ Done /\ results = <<"cancelled">>
    /\ cancelAt = "recompile" /\ Cardinality(cancelInFlight) = 2
    /\ \E d \in cancelInFlight : Len(attempts[d]) = 2

\* C25: when baksmali.jar or smali.jar (either one, or both) is missing the
\* run ends in failure before starting: no temporary directory is created, no
\* progress event is emitted, no external process is launched (no task
\* exists) and the destination is untouched.
C25_ToolMissing ==
    JarMissing =>
        /\ pc \in {"start", "end"}
        /\ Done => results = <<"failure">>
        /\ temp_dir = "none"
        /\ progress = <<>>
        /\ DOMAIN dtask = {} /\ DOMAIN rtask = {} /\ ~toolFailed
        /\ DestinationUntouched

\* only smali.jar is missing; cancel() was called before run() started
C25_Witness ==
    /\ jars_present = {"baksmali.jar"} /\ Done /\ results = <<"failure">>
    /\ cancelAt = "start"
    /\ Len(members) > 0

\* no member of the archive matches the unit naming convention
NoUnits == \A i \in DOMAIN members : ~IsDexMember(members[i])

\* run() has reached the scan of the archive (progress 5 precedes it)
ScanReached == \E i \in DOMAIN progress : progress[i] = 5

\* C26: when no member of the archive matches the unit naming convention no
\* disassembly task is ever launched and nothing is written to the
\* destination; the run that scans the archive ends in failure, and the
\* temporary directory is removed.
C26_NoUnitsFound ==
    (archive_ok /\ NoUnits) =>
        /\ DOMAIN dtask = {} /\ DOMAIN rtask = {} /\ ~toolFailed
        /\ DestinationUntouched
        /\ pc \in {"start", "chk_start", "mktemp", "scan", "finally", "end"}
        /\ (ScanReached /\ pc \in {"finally", "end"}) => results = <<"failure">>
        /\ (ScanReached /\ Done) => temp_dir = "removed"

\* an archive with members, none of them a unit
C26_Witness ==
    /\ archive_ok /\ NoUnits /\ Len(members) = 2 /\ Done
    /\ results = <<"failure">> /\ temp_dir = "removed" /\ progress = <<5>>

(***************************************************************************)
(* Rule C on disassembly files (checked under SpecRuleC).                  *)
(***************************************************************************)
\* a standalone annotation line: optional indentation, .line, white space,
\* a decimal number, optional trailing white space, and nothing else
Standalone(l) ==
    \E i, j, k \in DOMAIN l :
        /\ l[i] = ".line" /\ i + 1 < j /\ j <= k
        /\ \A m \in DOMAIN l :
              l[m] = (IF m = i THEN ".line" ELSE IF m \in j..k THEN "d" ELSE "sp")

\* the lines of a file that are not standalone annotations, in order
OtherLines(lines) == SelectSeq(lines, LAMBDA l : ~Standalone(l))

\* the paths of the files baksmali wrote for the units of the archive
DisassemblyPaths ==
    UNION {{<<OutputDirName(u), n>> : n \in DOMAIN baksmali_out[OutputDirName(u)]} :
               u \in Range(dex_files)}

\* C32: the step that leaves the position of Rule C is taken by every run
\* that reaches the Patching stage, before the rules A and B are applied; it
\* never fails the run; it covers every disassembly file of every unit; every
\* .smali file it could process holds exactly its former lines without the
\* standalone .line annotations, in order, whatever happened to the other
\* files; a file it could not process is logged; no other file is changed.
\* The rules A and B are applied only after it.
C32_RuleCRemovesAnnotations ==
    [][/\ (pc = "rulec" /\ pc' # pc) =>
              /\ pc' = "chk_rulec"
              /\ results' = results
              /\ progress' = progress \o <<40, 50>>
              /\ ~RulesApplied'
              /\ DisassemblyPaths \subseteq DOMAIN smali_files
              /\ DOMAIN smali_files' = DOMAIN smali_files
              /\ \A p \in DOMAIN smali_files :
                    IF IsSmaliFile(p)
                    THEN \/ smali_files'[p] = OtherLines(smali_files[p])
                         \/ p \in ruleC_log'
                    ELSE smali_files'[p] = smali_files[p] /\ p \notin ruleC_log'
       /\ (pc = "chk_decompile" /\ pc' \notin {pc, "finally"}) => pc' = "rulec"
       /\ (RulesApplied' /\ ~RulesApplied) =>
              /\ \E i \in DOMAIN progress : progress[i] = 50
              /\ smali_files' = smali_files]_vars

\* a run on two units: the class of the first unit could not be read, the
\* two classes of the second lost their annotation lines, the file that is
\* not a class kept its own, and the run went on to success
C32_Witness ==
    /\ Done /\ results = <<"success">>
    /\ baksmali_out[<<"smali">>] = FilesA
    /\ baksmali_out[<<"smali_", "classes", "2">>] = FilesB
    /\ ruleC_log = {<< <<"smali">>, <<"A", ".smali">> >>}
    /\ smali_files[<< <<"smali">>, <<"A", ".smali">> >>] = TextPlain
    /\ smali_files[<< <<"smali">>, <<"R", ".txt">> >>] = TextOnlyAnn
    /\ smali_files[<< <<"smali_", "classes", "2">>, <<"A", ".smali">> >>] = <<LineNoSpace, LineNoNumber, LineComment>>
    /\ smali_files[<< <<"smali_", "classes", "2">>, <<"B", ".smali">> >>] = <<LineNotFirst, LineNumberLetter, LineInstr>>

(***************************************************************************)
(* Unit names and the end of the run (checked under Spec).                  *)
(***************************************************************************)
\* the unit names the repack has written into the output archive
WrittenUnitNames ==
    {destFile.entries[i][1] : i \in {j \in DOMAIN destFile.entries :
                                         destFile.entries[j][2][1] = "new"}}

\* C33: for every unit of the archive the directory name maps back to the
\* member name, distinct units have distinct directories, and after a
\* successful run the unit names written by the repack are exactly the unit
\* names left out of the copy.
C33_NameRoundTrip ==
    /\ \A u \in Range(dex_files) : DexName(OutputDirName(u)) = u
    /\ \A u, v \in Range(dex_files) : u # v => OutputDirName(u) # OutputDirName(v)
    /\ (Done /\ results = <<"success">>) => WrittenUnitNames = original_dex_files

\* C34: whenever a success result has been emitted the destination holds the
\* closed archive with every member the repack writes, the .tmp sibling of
\* the overwrite mode has been renamed over it and is gone, and no exception
\* was raised while repacking; progress 100 is emitted only together with the
\* success result of the run.
C34_SuccessAfterCompleteWrite ==
    /\ ("success" \in Range(results)) =>
          /\ results = <<"success">>
          /\ destFile.kind = "zip"
          /\ Len(destFile.entries) = total_items + Len(recompiled_dex_files)
          /\ tmpFile = Absent
          /\ overwrite_original => tmpTouched
          /\ ~ioFailed
          /\ pc \in {"finally", "end"}
    /\ (\E i \in DOMAIN progress : progress[i] = 100) =>
          /\ results = <<"success">>
          /\ Last(progress) = 100

\* an overwrite run on two units and two other members ended in success
C34_Witness ==
    /\ Done /\ results = <<"success">> /\ overwrite_original
    /\ Len(members) = 4 /\ Len(recompiled_dex_files) = 2
    /\ destFile.kind = "zip" /\ Len(destFile.entries) = 4
    /\ tmpTouched /\ tmpFile = Absent
    /\ Last(progress) = 100

(***************************************************************************)
(* Updater-script text: a sequence of tokens.  NL is "\n", SP a blank or   *)
(* tab, TXT a statement such as ui_print("x"); (it ends with ");"), START  *)
(* and END the marker comments, and a directive token                     *)
(* <<function, path, mode digits...>> is one set_metadata call.            *)
(***************************************************************************)
NL == <<"\n">>
SP == <<" ">>
TXT == <<"ui_print(1);">>
MOUNT == <<"run_program(\"/system/bin/mount\", \"/system\");">>
START == <<"# === Tool: auto-permission ===">>
END == <<"# === End Tool Block ===">>

IsSpace(tok) == tok \in {NL, SP}      \* \s

IsDirective(tok) ==
    Len(tok) >= 2 /\ tok[1] \in {"set_metadata", "set_metadata_recursive"}

\* set_metadata(?:_recursive)?\(\s*"<path>"\s*,
IsDirectiveFor(tok, path) == IsDirective(tok) /\ tok[2] = path

\* the token ends with ");"
EndsStatement(tok) == IsDirective(tok) \/ tok \in {TXT, MOUNT}

\* build_edify_line
build_edify_line(path_edify, is_dir, mode_expect) ==
    LET mode_str == IF Len(mode_expect) = 3 THEN <<"0">> \o mode_expect ELSE mode_expect
    IN IF is_dir
       THEN <<"set_metadata_recursive", path_edify>> \o mode_str
       ELSE <<"set_metadata", path_edify>> \o mode_str

\* index of the first token at or after i that is not white space (Len + 1 if none)
RECURSIVE SkipSpace(_, _)
SkipSpace(t, i) ==
    IF i > Len(t) \/ ~IsSpace(t[i]) THEN i ELSE SkipSpace(t, i + 1)

\* index of the last NL among t[i..j], 0 if none
RECURSIVE LastNL(_, _, _)
LastNL(t, i, j) ==
    IF j < i THEN 0 ELSE IF t[j] = NL THEN j ELSE LastNL(t, i, j - 1)

\* ^ under re.MULTILINE
AtLineStart(t, i) == i = 1 \/ t[i - 1] = NL

\* \s*$ after token m: index of the last token matched, or -1 if it cannot match
TailEnd(t, m) ==
    LET r == SkipSpace(t, m + 1) - 1
        l == LastNL(t, m + 1, r)
    IN IF r = Len(t) THEN r
       ELSE IF l # 0 THEN l - 1
       ELSE -1

\* .*?\);\s*$ from the directive at k: the lazy .*? stays on the line
RECURSIVE StatementEnd(_, _)
StatementEnd(t, m) ==
    IF m > Len(t) \/ t[m] = NL THEN -1
    ELSE IF EndsStatement(t[m]) /\ TailEnd(t, m) # -1 THEN TailEnd(t, m)
    ELSE StatementEnd(t, m + 1)

\* the pattern of line 151 matched at position s: index of its last token, or -1
DirectiveMatchEnd(t, s, path) ==
    LET k == SkipSpace(t, s)
    IN IF AtLineStart(t, s) /\ k <= Len(t) /\ IsDirectiveFor(t[k], path)
       THEN StatementEnd(t, k)
       ELSE -1

\* re.subn(pattern, "", current_text, flags=re.MULTILINE) scanning from i
RECURSIVE SubnDirective(_, _, _)
SubnDirective(t, i, path) ==
    IF i > Len(t) THEN [text |-> <<>>, count |-> 0]
    ELSE LET e == DirectiveMatchEnd(t, i, path)
         IN IF e = -1
            THEN LET r == SubnDirective(t, i + 1, path)
                 IN [text |-> <<t[i]>> \o r.text, count |-> r.count]
            ELSE LET r == SubnDirective(t, e + 1, path)
                 IN [text |-> r.text, count |-> r.count + 1]

\* the loop of lines 149-160
RECURSIVE RemoveExisting(_, _)
RemoveExisting(text, items) ==
    IF items = <<>> THEN [text |-> text, added |-> 0, updated |-> 0, lines |-> <<>>]
    ELSE LET it == Head(items)
             sub == SubnDirective(text, 1, it.path)
             r == RemoveExisting(sub.text, Tail(items))
         IN [text |-> r.text,
             added |-> r.added + (IF sub.count > 0 THEN 0 ELSE 1),
             updated |-> r.updated + (IF sub.count > 0 THEN 1 ELSE 0),
             lines |-> <<build_edify_line(it.path, it.is_dir, it.mode)>> \o r.lines]

\* re.sub(r'\n\s*\n', '\n', current_text) scanning from i
RECURSIVE CollapseBlank(_, _)
CollapseBlank(t, i) ==
    IF i > Len(t) THEN <<>>
    ELSE LET l == IF t[i] = NL THEN LastNL(t, i + 1, SkipSpace(t, i + 1) - 1) ELSE 0
         IN IF l # 0
            THEN <<NL>> \o CollapseBlank(t, l + 1)
            ELSE <<t[i]>> \o CollapseBlank(t, i + 1)

\* str.strip()
RECURSIVE RStrip(_)
RStrip(t) == IF t # <<>> /\ IsSpace(Last(t)) THEN RStrip(SubSeq(t, 1, Len(t) - 1)) ELSE t

Strip(t) == RStrip(SubSeq(t, SkipSpace(t, 1), Len(t)))

\* index of the first token equal to tok at or after i (Len + 1 if none)
RECURSIVE IndexFrom(_, _, _)
IndexFrom(t, i, tok) ==
    IF i > Len(t) \/ t[i] = tok THEN i ELSE IndexFrom(t, i + 1, tok)

\* index after the run of NL that starts at i
RECURSIVE SkipNL(_, _)
SkipNL(t, i) == IF i > Len(t) \/ t[i] # NL THEN i ELSE SkipNL(t, i + 1)

\* first index of the run of NL that ends just before a, not below i
RECURSIVE BackNL(_, _, _)
BackNL(t, i, a) == IF a > i /\ t[a - 1] = NL THEN BackNL(t, i, a - 1) ELSE a

\* the old block is left in place (no block_pattern.sub)
KeepBlocks(t, i) == SubSeq(t, i, Len(t))

\* block_pattern.sub('', ...): \n*START.*?END\n* with re.DOTALL, scanning from i
RECURSIVE RemoveBlocks(_, _)
RemoveBlocks(t, i) ==
    LET a == IndexFrom(t, i, START)
        b == IndexFrom(t, a + 1, END)
    IN IF b > Len(t) THEN SubSeq(t, i, Len(t))
       ELSE SubSeq(t, i, BackNL(t, i, a) - 1) \o RemoveBlocks(t, SkipNL(t, b + 1))

\* "\n".join(lines)
RECURSIVE JoinLines(_)
JoinLines(lines) ==
    IF lines = <<>> THEN <<>>
    ELSE IF Len(lines) = 1 THEN <<lines[1]>>
    ELSE <<lines[1], NL>> \o JoinLines(Tail(lines))

\* insertion_point = match.end() of the first mount point found: the index of
\* the mount statement, 0 for -1
insertion_point(current_text) ==
    IF IndexFrom(current_text, 1, MOUNT) > Len(current_text) THEN 0
    ELSE IndexFrom(current_text, 1, MOUNT)

\* new_content of lines 179-191: the block after the mount statement, or at
\* the end; the function computes it and returns final_text instead
new_content(current_text, lines) ==
    LET at == insertion_point(current_text)
    IN IF at # 0
       THEN SubSeq(current_text, 1, at) \o <<NL, NL, START, NL>> \o JoinLines(lines)
                \o <<NL, END, NL>> \o SubSeq(current_text, at + 1, Len(current_text))
       ELSE Strip(current_text) \o <<NL, NL, START, NL>> \o JoinLines(lines)
                \o <<NL, END, NL>>

\* ensure_edify_stat_lines(script_text, items) -> (final_text, added, updated)
ensure_edify_stat_lines(script_text, items) ==
    LET removed == RemoveExisting(script_text, items)
        current_text == CollapseBlank(removed.text, 1)
        final_text == RemoveBlocks(Strip(current_text), 1)
    IN [text |-> final_text \o <<NL, NL, START, NL>> \o JoinLines(removed.lines)
                    \o <<NL, END>>,
        added |-> removed.added,
        updated |-> removed.updated]

(***************************************************************************)
(* The merge engine as a state machine: a script and a sequence of merges. *)
(***************************************************************************)
MaxScriptLen == 4
MaxMerges == 2

PathP == "/system/p"
PathQ == "/system/q"
ItemP == [path |-> PathP, is_dir |-> TRUE, mode |-> <<"7", "5", "5">>]
ItemQ == [path |-> PathQ, is_dir |-> FALSE, mode |-> <<"6", "4", "4">>]
ItemLists == { <<ItemP>>, <<ItemQ>>, <<ItemP, ItemQ>> }

DirP == build_edify_line(PathP, TRUE, <<"7", "5", "5">>)
DirQ == build_edify_line(PathQ, FALSE, <<"6", "4", "4">>)
ScriptTokens == {NL, SP, TXT, START, END, DirP, DirQ}

Scripts == UNION {[1..n -> ScriptTokens] : n \in 0..MaxScriptLen}

\* result = {"script_path": None, "added": 0, "updated": 0, "skipped": 0, "notes": []}
NoResult == [script_path |-> FALSE, added |-> 0, updated |-> 0, skipped |-> 0, notes |-> <<>>]

InitMerge ==
    /\ script \in Scripts
    /\ script0 = script
    /\ prevScript = <<>>
    /\ lastItems = <<>>
    /\ prevItems = <<>>
    /\ nMerges = 0
    /\ result = NoResult
    /\ backups = <<>>
    /\ scriptOpens = 0
    /\ nCalls = 0
    /\ lastCall = "none"
    /\ lastEntries = <<>>
    /\ script_exists = TRUE

\* new_content, added, updated = ensure_edify_stat_lines(original_content, items)
Merge(items) ==
    /\ nMerges < MaxMerges
    /\ script' = ensure_edify_stat_lines(script, items).text
    /\ prevScript' = script
    /\ prevItems' = lastItems
    /\ lastItems' = items
    /\ nMerges' = nMerges + 1
    /\ UNCHANGED <<script0, script_exists, result, backups, scriptOpens,
                   nCalls, lastCall, lastEntries>>

(***************************************************************************)
(* Properties of the merge engine.                                         *)
(***************************************************************************)
\* number of occurrences of tok in t
Count(t, tok) == Cardinality({i \in DOMAIN t : t[i] = tok})

\* number of regions START ... END of t at or after i, as block_pattern finds them
RECURSIVE BlockCount(_, _)
BlockCount(t, i) ==
    LET a == IndexFrom(t, i, START)
        b == IndexFrom(t, a + 1, END)
    IN IF b > Len(t) THEN 0 ELSE 1 + BlockCount(t, b + 1)

\* the tokens between the first start marker and the end marker that follows it
FirstBlock(t) ==
    LET a == IndexFrom(t, 1, START)
        b == IndexFrom(t, a + 1, END)
    IN SubSeq(t, a + 1, b - 1)

HasBlock(t) == IndexFrom(t, IndexFrom(t, 1, START) + 1, END) <= Len(t)

PathsOf(items) == {items[i].path : i \in DOMAIN items}

DirectivesOf(items) ==
    [i \in DOMAIN items |->
        build_edify_line(items[i].path, items[i].is_dir, items[i].mode)]

\* C3: merging the output of a merge again with the same entry list returns
\* exactly the same text, whatever the script text and the entry list.
C3_Idempotent ==
    (nMerges >= 2 /\ lastItems = prevItems) => script = prevScript

\* C4: after a merge with E1 followed by a merge with E2 whose path set
\* differs, the managed block holds exactly one directive for each path of E2,
\* in order, and no directive for a path that occurs only in E1.
C4_LastWriteWins ==
    (nMerges >= 2 /\ PathsOf(prevItems) # PathsOf(lastItems)) =>
        /\ HasBlock(script)
        /\ SelectSeq(FirstBlock(script), IsDirective) = DirectivesOf(lastItems)
        /\ \A p \in PathsOf(prevItems) \ PathsOf(lastItems) :
              \A i \in DOMAIN FirstBlock(script) :
                  ~IsDirectiveFor(FirstBlock(script)[i], p)

C4_Witness ==
    /\ nMerges = 2 /\ prevItems = <<ItemP>> /\ lastItems = <<ItemQ>>
    /\ script0 = <<TXT, NL, DirQ>>
    /\ SelectSeq(FirstBlock(prevScript), IsDirective) = <<DirP>>
    /\ SelectSeq(FirstBlock(script), IsDirective) = <<DirQ>>
    /\ script = <<TXT, NL, NL, START, NL, DirQ, NL, END>>

\* C9: starting from a script with at most one managed block, after any
\* number of merges the script has exactly one managed block, with one start
\* marker and one end marker.
C9_ExactlyOneBlock ==
    (BlockCount(script0, 1) <= 1 /\ nMerges >= 1) =>
        /\ BlockCount(script, 1) = 1
        /\ Count(script, START) = 1
        /\ Count(script, END) = 1

\* position i of t lies between a start marker and the end marker after it
InsideBlock(t, i) ==
    /\ \E a \in 1..(i - 1) : t[a] = START /\ \A k \in (a + 1)..(i - 1) : t[k] # END
    /\ \E b \in (i + 1)..Len(t) : t[b] = END

\* the positions of t that hold a directive for path p
DirectivesFor(t, p) == {i \in DOMAIN t : IsDirectiveFor(t[i], p)}

\* C35: when the original script holds a directive for p outside the managed
\* block, a merge whose entries include p leaves directives for p in the
\* managed block only, and a second merge whose entries omit p leaves no
\* directive for p in the script at all.
C35_OutsideDirectiveNotRestored ==
    \A p \in {PathP, PathQ} :
        (/\ nMerges = 2
         /\ p \in PathsOf(prevItems) /\ p \notin PathsOf(lastItems)
         /\ \E i \in DirectivesFor(script0, p) : ~InsideBlock(script0, i)) =>
            /\ DirectivesFor(prevScript, p) # {}
            /\ \A i \in DirectivesFor(prevScript, p) : InsideBlock(prevScript, i)
            /\ DirectivesFor(script, p) = {}

(***************************************************************************)
(* update_updater_script as a state machine: a ROM root with or without an *)
(* updater-script, and a sequence of calls.  An entry is                   *)
(* [parts, is_dir, mode_expect]: parts are the components of path_abs      *)
(* relative to rom_root, mode_expect a sequence of chunks ("0o" is one).   *)
(***************************************************************************)
MaxCalls == 3

standard_partitions == {"system", "vendor", "product", "system_ext", "odm", "oem"}

\* edify_path = "/" + rel_path, for the paths of the model
EdifyPaths ==
    (<<"system", "p">> :> PathP) @@ (<<"system", "q">> :> PathQ)
    @@ (<<"data", "x">> :> "/data/x") @@ (<<"..", "system", "p">> :> "/../system/p")

\* the test passes when any component of the path names a partition
InPartitionAnywhere(parts) == \E i \in DOMAIN parts : parts[i] \in standard_partitions

\* if parts[0] in standard_partitions
InPartition(parts) == parts[1] \in standard_partitions

\* to_edify_path: (edify_path, is_dir), or None (here <<>>)
to_edify_path(entry) ==
    IF InPartition(entry.parts)
    THEN <<EdifyPaths[entry.parts], entry.is_dir>>
    ELSE <<>>

EntryP == [parts |-> <<"system", "p">>, is_dir |-> TRUE,
           mode_expect |-> <<"0o", "7", "5", "5">>]
EntryQ == [parts |-> <<"system", "q">>, is_dir |-> FALSE,
           mode_expect |-> <<"6", "4", "4">>]
EntryX == [parts |-> <<"data", "x">>, is_dir |-> FALSE,
           mode_expect |-> <<"0o", "6", "4", "4">>]
\* path_abs lies outside rom_root, in a directory named system
EntryOut == [parts |-> <<"..", "system", "p">>, is_dir |-> FALSE,
             mode_expect |-> <<"0o", "6", "4", "4">>]
EntryLists == { <<EntryP>>, <<EntryQ>>, <<EntryX>>, <<EntryP, EntryX>>,
                <<EntryX, EntryQ, EntryP>>, <<EntryOut, EntryX>>,
                <<EntryOut, EntryQ>> }

\* the loop of lines 216-225: items_to_process, skipped and the notes
RECURSIVE ProcessEntries(_)
ProcessEntries(entries) ==
    IF entries = <<>> THEN [items |-> <<>>, skipped |-> 0, notes |-> <<>>]
    ELSE LET edify_info == to_edify_path(Head(entries))
             r == ProcessEntries(Tail(entries))
         IN IF edify_info # <<>>
            THEN [items |-> <<[path |-> edify_info[1], is_dir |-> edify_info[2],
                               mode |-> RemoveAll(Head(entries).mode_expect, "0o")]>>
                            \o r.items,
                  skipped |-> r.skipped, notes |-> r.notes]
            ELSE [items |-> r.items, skipped |-> r.skipped + 1,
                  notes |-> <<"Skipped">> \o r.notes]

\* what the file system does inside the try block: every step works,
\* shutil.copy2 raises, open(script_path, "w") raises, or f.write raises after
\* the file has been truncated
Outcomes == {"ok", "backup_failed", "write_refused", "write_failed"}

\* the script is taken to exist whatever the ROM root holds
ScriptAlwaysFound == TRUE

\* find_updater_script: script_path if os.path.exists(script_path) else None
find_updater_script == script_exists

\* the backup copy is taken after the script has been rewritten
BackupAfterWrite(original, written) == written

\* shutil.copy2(script_path, backup_path), before the script is read and written
BackupContent(original, written) == original

\* backup_path = f"{script_path}.bak.{timestamp}": a new sibling, or the sibling
\* of the previous backup when the clock shows the same second
BackupsAfter(content, same_second) ==
    IF same_second /\ backups # <<>>
    THEN [backups EXCEPT ![Len(backups)] = content]
    ELSE Append(backups, content)

\* the failure of the backup is swallowed and the merge goes on
CopyRaisesIgnored(outcome) == FALSE

\* shutil.copy2(script_path, backup_path) raises: control goes to the except clause
CopyRaises(outcome) == outcome = "backup_failed"

UpdateScripts ==
    { <<>>, <<TXT, NL, DirP>>, <<MOUNT, NL, TXT>>,
      ensure_edify_stat_lines(<<TXT>>, <<ItemQ>>).text }

InitUpdate ==
    /\ script_exists \in BOOLEAN
    /\ script \in UpdateScripts
    /\ script0 = script
    /\ prevScript = <<>>
    /\ lastItems = <<>>
    /\ prevItems = <<>>
    /\ nMerges = 0
    /\ result = NoResult
    /\ backups = <<>>
    /\ scriptOpens = 0
    /\ nCalls = 0
    /\ lastCall = "none"
    /\ lastEntries = <<>>

\* update_updater_script(entries, rom_root)
UpdateScript(entries) ==
    /\ nCalls < MaxCalls
    /\ nCalls' = nCalls + 1
    /\ lastEntries' = entries
    /\ LET p == ProcessEntries(entries)
           new == ensure_edify_stat_lines(script, p.items)
       IN IF ~find_updater_script
          THEN /\ result' = [NoResult EXCEPT !.notes = <<"no updater-script">>]
               /\ lastCall' = "not_reached"
               /\ UNCHANGED <<script, backups, scriptOpens>>
          ELSE IF p.items = <<>>
          THEN /\ result' = [script_path |-> TRUE, added |-> 0, updated |-> 0,
                             skipped |-> p.skipped, notes |-> p.notes]
               /\ lastCall' = "not_reached"
               /\ UNCHANGED <<script, backups, scriptOpens>>
          ELSE \E outcome \in Outcomes, same_second \in BOOLEAN :
               /\ lastCall' = outcome
               /\ backups' = IF outcome = "backup_failed" THEN backups
                             ELSE BackupsAfter(BackupContent(script, new.text), same_second)
               /\ IF CopyRaises(outcome) \/ outcome = "write_refused"
                  THEN UNCHANGED <<script, scriptOpens>>
                  ELSE /\ scriptOpens' = scriptOpens + 1
                       /\ script' = IF outcome = "write_failed" THEN <<>> ELSE new.text
               /\ IF CopyRaises(outcome) \/ outcome \in {"write_refused", "write_failed"}
                  THEN result' = [script_path |-> TRUE, added |-> 0, updated |-> 0,
                                  skipped |-> p.skipped,
                                  notes |-> Append(p.notes, "ERROR")]
                  ELSE result' = [script_path |-> TRUE, added |-> new.added,
                                  updated |-> new.updated, skipped |-> p.skipped,
                                  notes |-> Append(p.notes, "Backup created")]
    /\ UNCHANGED <<script_exists, script0, prevScript, lastItems, prevItems, nMerges>>

\* C15: in a call of update_updater_script in which the backup copy cannot
\* be created, the script is not opened for writing and keeps its content,
\* no backup file appears, and the result has an error note with added = 0
\* and updated = 0.
C15_BackupFailureAborts ==
    [][(nCalls' # nCalls /\ lastCall' = "backup_failed") =>
           /\ script' = script
           /\ scriptOpens' = scriptOpens
           /\ backups' = backups
           /\ result'.added = 0
           /\ result'.updated = 0
           /\ Last(result'.notes) = "ERROR"]_vars

\* a merge has been written, then a call whose backup failed left it as it was
C15_Witness ==
    /\ lastCall = "backup_failed"
    /\ nCalls = 2
    /\ scriptOpens = 1 /\ Len(backups) = 1
    /\ script0 = <<TXT, NL, DirP>>
    /\ script = <<TXT, NL, NL, START, NL, DirP, NL, END>>
    /\ result.added = 0 /\ result.updated = 0 /\ result.notes = <<"ERROR">>

\* C18: after a merge that was written, a script with a system-mount
\* statement has the managed block right after that statement (only white
\* space between the statement and the start marker), and a script without
\* one has the block at its end.
C18_BlockAfterMount ==
    LET m == insertion_point(script)
        k == SkipSpace(script, m + 1)
    IN lastCall = "ok" =>
          IF m # 0
          THEN k <= Len(script) /\ script[k] = START
          ELSE HasBlock(script) /\ Last(script) = END

\* the entries whose path, relative to the ROM root, does not start with the
\* name of a recognized partition
OutOfScope(entries) ==
    {i \in DOMAIN entries : entries[i].parts[1] \notin standard_partitions}

\* C27: in a call on a ROM root with a script, every entry that is not under
\* a recognized top-level partition increments skipped, adds one note and
\* gets no directive in the script; when every entry is skipped the script is
\* neither backed up nor opened for writing.
C27_OutOfScopeSkipped ==
    [][(nCalls' # nCalls /\ script_exists) =>
           LET out == OutOfScope(lastEntries')
           IN /\ result'.skipped = Cardinality(out)
              /\ Count(result'.notes, "Skipped") = Cardinality(out)
              /\ \A i \in out, k \in DOMAIN script' :
                    ~IsDirectiveFor(script'[k], EdifyPaths[lastEntries'[i].parts])
              /\ out = DOMAIN lastEntries' =>
                    /\ script' = script
                    /\ backups' = backups
                    /\ scriptOpens' = scriptOpens
                    /\ result'.added = 0 /\ result'.updated = 0]_vars

\* after a merge that was written, a call whose two entries are both skipped
C27_Witness ==
    /\ nCalls = 2 /\ lastEntries = <<EntryOut, EntryX>>
    /\ result.skipped = 2 /\ result.notes = <<"Skipped", "Skipped">>
    /\ scriptOpens = 1 /\ Len(backups) = 1 /\ HasBlock(script)

\* C28: on a ROM root without an updater-script every call returns a result
\* with no script_path, added = updated = skipped = 0 and one note, and no
\* file is created or modified: no backup, no script.
C28_NoScriptNoOp ==
    (~script_exists /\ nCalls > 0) =>
        /\ result = [NoResult EXCEPT !.notes = <<"no updater-script">>]
        /\ backups = <<>>
        /\ scriptOpens = 0
        /\ script = script0

\* a call with an entry in scope and one out of scope, on such a ROM root
C28_Witness ==
    /\ ~script_exists /\ nCalls = 1 /\ lastEntries = <<EntryP, EntryX>>
    /\ result.skipped = 0 /\ Len(result.notes) = 1

\* C29: in every call that opens the script for writing, a backup sibling
\* holding the content the script had before the call has been written first,
\* whatever calls came before.
C29_BackupBeforeWrite ==
    [][scriptOpens' # scriptOpens =>
           /\ backups' # <<>>
           /\ Last(backups') = script
           /\ Len(backups') >= Len(backups)]_vars

\* two merges were written: the second backup holds the output of the first
C29_Witness ==
    /\ scriptOpens = 2 /\ Len(backups) = 2
    /\ backups[1] = script0 /\ backups[2] # script0
    /\ script # backups[2] /\ lastCall = "ok"

(***************************************************************************)
(* Smali text: a sequence of lines, each line a token.                     *)
(*   <<".method", name, ret>>   .method public <name>(...)<ret>            *)
(*   <<".registers">>           .registers N                               *)
(*   <<".end method">>, <<"">> (blank line), <<".line">> (.line N)         *)
(*   <<op, p|v, n, value>>      const/4 p1, 0x1                            *)
(*   <<"invoke-virtual", p|v, n>>  invoke-virtual {v0, p1},                *)
(*                              Landroid/location/Location;->              *)
(*                              setIsFromMockProvider(Z)V                  *)
(*   any other token            some other instruction                     *)
(***************************************************************************)
Hdr(name, ret) == <<".method", name, ret>>
Regs == <<".registers">>
EndMethod == <<".end method">>
Blank == <<"">>
DotLine == <<".line">>
Body == << <<"invoke-static">>, <<"move-result", "v0">>, <<"return", "v0">> >>
Const(op, kind, n, value) == <<op, kind, n, value>>
Invoke(kind, n) == <<"invoke-virtual", kind, n>>
NewArray == <<"new-array">>

IsHdr(tok) == Len(tok) = 3 /\ tok[1] = ".method"

\* noteOp(?:NoThrow)?
NoteNames == {"noteOp", "noteOpNoThrow"}

\* the name test of pattern_bool widened to the check variant
NoteOrCheckNames == {"noteOp", "noteOpNoThrow", "checkOpNoThrow"}

\* pattern_bool with the name test widened to the check variant
BoolPatternNameWide(name) == name \in NoteOrCheckNames

\* \.method public noteOp(?:NoThrow)?\(
BoolPatternName(name) == name \in NoteNames

\* (?:note|check)(?:Proxy)?Op(?:NoThrow)?
IntPatternName(name) ==
    name \in {"noteOp", "checkOp", "noteProxyOp", "checkProxyOp",
              "noteOpNoThrow", "checkOpNoThrow", "noteProxyOpNoThrow",
              "checkProxyOpNoThrow"}

\* replacement_bool: "\n\n    const/4 v0, 0x1\n    return v0\n\n"
StubBool == <<Blank, <<"const/4", "v", "0", "0x1">>, <<"return", "v0">>, Blank>>

\* replacement_int: "\n\n    .locals 1\n    const/4 v0, 0x0\n    return v0\n\n"
StubInt == <<Blank, <<".locals 1">>, <<"const/4", "v", "0", "0x0">>, <<"return", "v0">>, Blank>>

\* \(.*?\)<ret>\s*\.registers \d+ with re.DOTALL: the first line at or after j
\* that ends with ")<ret>" and is followed by a .registers line (Len + 1 if none)
RECURSIVE SignatureEnd(_, _, _)
SignatureEnd(t, j, ret) ==
    IF j >= Len(t) THEN Len(t) + 1
    ELSE IF IsHdr(t[j]) /\ t[j][3] = ret /\ t[j + 1] = Regs THEN j
    ELSE SignatureEnd(t, j + 1, ret)

\* the name test of the pattern for return type ret
PatternName(ret, name) ==
    IF ret = "Z" THEN BoolPatternName(name) ELSE IntPatternName(name)

\* pattern.subn(replacement, content) scanning from i; ret is the return type
\* of the pattern, stub the replacement body
RECURSIVE SubnMethod(_, _, _, _)
SubnMethod(t, i, ret, stub) ==
    IF i > Len(t) THEN [text |-> <<>>, count |-> 0]
    ELSE LET j == IF IsHdr(t[i]) /\ PatternName(ret, t[i][2]) THEN SignatureEnd(t, i, ret)
                  ELSE Len(t) + 1
             e == IF j > Len(t) THEN Len(t) + 1 ELSE IndexFrom(t, j + 2, EndMethod)
         IN IF e > Len(t)
            THEN LET r == SubnMethod(t, i + 1, ret, stub)
                 IN [text |-> <<t[i]>> \o r.text, count |-> r.count]
            ELSE LET r == SubnMethod(t, e + 1, ret, stub)
                 IN [text |-> SubSeq(t, i, j + 1) \o stub \o <<EndMethod>> \o r.text,
                     count |-> r.count + 1]

\* patch_system_app_ops_helper: pattern_bool.subn, then pattern_int.subn
RuleA(content) ==
    LET b == SubnMethod(content, 1, "Z", StubBool)
        n == SubnMethod(b.text, 1, "I", StubInt)
    IN [text |-> n.text, count_bool |-> b.count, count_int |-> n.count]

\* (?:const/4|const/16|const)\s+((?:p|v)\d+),\s+0x1
IsConstTrue(tok) ==
    /\ Len(tok) = 4
    /\ tok[1] \in {"const/4", "const/16", "const"}
    /\ tok[2] \in {"p", "v"}
    /\ tok[4] = "0x1"

\* index of the first line at or after i that is neither blank nor a .line
RECURSIVE SkipAnnotations(_, _)
SkipAnnotations(t, i) ==
    IF i > Len(t) \/ t[i] \notin {Blank, DotLine} THEN i
    ELSE SkipAnnotations(t, i + 1)

\* index of the first line at or after i that is not blank
RECURSIVE SkipBlank(_, _)
SkipBlank(t, i) == IF i > Len(t) \/ t[i] # Blank THEN i ELSE SkipBlank(t, i + 1)

\* the restore is emitted for every register
RestoreAlways(kind, n) == <<Const("const/4", kind, n, "0x1")>>

\* restore = f"\n    const/4 {register}, 0x1" if register.startswith('p') else ""
Restore(kind, n) == IF kind = "p" THEN <<Const("const/4", kind, n, "0x1")>> ELSE <<>>

\* _replacer_mock_location for the match t[c..v]: c the constant, v the invoke
Replacer(t, c, v) ==
    <<Const(t[c][1], t[c][2], t[c][3], "0x0")>>
        \o SubSeq(t, SkipBlank(t, c + 1), v)
        \o Restore(t[c][2], t[c][3])

\* pattern.subn(self._replacer_mock_location, content) scanning from i
RECURSIVE SubnMock(_, _)
SubnMock(t, i) ==
    IF i > Len(t) THEN [text |-> <<>>, count |-> 0]
    ELSE LET v == SkipAnnotations(t, i + 1)
         IN IF /\ IsConstTrue(t[i])
               /\ v <= Len(t)
               /\ t[v] = Invoke(t[i][2], t[i][3])
            THEN LET r == SubnMock(t, v + 1)
                 IN [text |-> Replacer(t, i, v) \o r.text, count |-> r.count + 1]
            ELSE LET r == SubnMock(t, i + 1)
                 IN [text |-> <<t[i]>> \o r.text, count |-> r.count]

\* patch_mock_location_provider
RuleB(content) == SubnMock(content, 1)

(***************************************************************************)
(* The rules as state machines: a file, then the rule applied to it.       *)
(***************************************************************************)
MaxMethods == 3
MaxLines == 4

MethodNames == {"noteOp", "noteOpNoThrow", "checkOpNoThrow", "checkOp", "startOp"}
ReturnTypes == {"Z", "I", "V"}

Method(name, ret) == <<Hdr(name, ret), Regs>> \o Body \o <<EndMethod>>

RECURSIVE Flatten(_)
Flatten(ms) == IF ms = <<>> THEN <<>> ELSE Head(ms) \o Flatten(Tail(ms))

Methods == {Method(name, ret) : name \in MethodNames, ret \in ReturnTypes}

SmaliFiles == {Flatten(ms) : ms \in UNION {[1..n -> Methods] : n \in 0..MaxMethods}}

MockLines == { Const("const/4", "p", "1", "0x1"), Const("const/4", "v", "2", "0x1"),
               Const("const/16", "p", "1", "0x1"), Const("const/4", "p", "1", "0x0"),
               Invoke("p", "1"), Invoke("v", "2"), DotLine, Blank, NewArray }

MockFiles == UNION {[1..n -> MockLines] : n \in 0..MaxLines}

InitRuleA ==
    /\ smali \in SmaliFiles
    /\ smali0 = smali
    /\ ruleDone = "none"
    /\ count_bool = 0
    /\ count_int = 0
    /\ count_mock = 0

InitRuleB ==
    /\ smali \in MockFiles
    /\ smali0 = smali
    /\ ruleDone = "none"
    /\ count_bool = 0
    /\ count_int = 0
    /\ count_mock = 0

\* patch_system_app_ops_helper on the content of SystemAppOpsHelper.smali
ApplyRuleA ==
    /\ ruleDone = "none"
    /\ LET r == RuleA(smali)
       IN /\ smali' = r.text
          /\ count_bool' = r.count_bool
          /\ count_int' = r.count_int
    /\ ruleDone' = "A"
    /\ UNCHANGED <<smali0, count_mock>>

\* patch_mock_location_provider on the content of MockLocationProvider.smali
ApplyRuleB ==
    /\ ruleDone = "none"
    /\ LET r == RuleB(smali)
       IN /\ smali' = r.text
          /\ count_mock' = r.count
    /\ ruleDone' = "B"
    /\ UNCHANGED <<smali0, count_bool, count_int>>

(***************************************************************************)
(* Properties of the rules.                                                *)
(***************************************************************************)
\* the methods of a file: the runs of lines that end with .end method
RECURSIVE Split(_, _)
Split(t, i) ==
    IF i > Len(t) THEN <<>>
    ELSE LET e == IndexFrom(t, i, EndMethod)
         IN IF e > Len(t) THEN <<SubSeq(t, i, Len(t))>>
            ELSE <<SubSeq(t, i, e)>> \o Split(t, e + 1)

IsBoolNote(m) == m[1][2] \in NoteNames /\ m[1][3] = "Z"
IsBoolCheck(m) == m[1][2] = "checkOpNoThrow" /\ m[1][3] = "Z"

\* the method m with its body replaced by the body that returns true
ReturnsTrue(m) == <<m[1], m[2]>> \o StubBool \o <<EndMethod>>

C8_OnlyNoteBodiesChange ==
    LET a == Split(smali0, 1)
        b == Split(smali, 1)
    IN (ruleDone = "A" /\ \E k \in DOMAIN a : IsBoolNote(a[k])) =>
           /\ Len(b) = Len(a)
           /\ \A k \in DOMAIN a :
                 /\ b[k][1] = a[k][1]
                 /\ a[k][1][2] \notin NoteNames => b[k] = a[k]

CheckNames == {"checkOp", "checkOpNoThrow"}

\* C16: rule A leaves every method of the check family (checkOp,
\* checkOpNoThrow) as it was, whatever its return type and whatever else the
\* file contains.
C16_CheckFamilyUntouched ==
    LET a == Split(smali0, 1)
        b == Split(smali, 1)
    IN ruleDone = "A" =>
           /\ Len(b) = Len(a)
           /\ \A k \in DOMAIN a : a[k][1][2] \in CheckNames => b[k] = a[k]

\* a match of the pattern of rule B starts at line i of t
IsSite(t, i) ==
    /\ IsConstTrue(t[i])
    /\ SkipAnnotations(t, i + 1) <= Len(t)
    /\ t[SkipAnnotations(t, i + 1)] = Invoke(t[i][2], t[i][3])

Sites(t) == {i \in DOMAIN t : IsSite(t, i)}

\* blank lines that follow the constant of the match at i and are not kept
Dropped(t, i) == SkipBlank(t, i + 1) - (i + 1)

\* lines gained by the matches that start at or before i
RECURSIVE Shift(_, _)
Shift(t, i) ==
    IF i = 0 THEN 0
    ELSE Shift(t, i - 1) +
         (IF IsSite(t, i)
          THEN (IF t[i][2] = "p" THEN 1 ELSE 0) - Dropped(t, i)
          ELSE 0)

\* what line j of the input becomes when it is outside the span of a match or
\* the constant of one
Image(t, j) ==
    IF IsSite(t, j) THEN Const(t[j][1], t[j][2], t[j][3], "0x0") ELSE t[j]

MaxTreeNodes == 4

DirNames == {"a", "b", "c"}

AllNodes == { <<"a">>, <<"a", "b">>, <<"a", "g">>, <<"c">>, <<"f">> }

\* os.path.isdir
IsDirNode(n) == n = <<>> \/ Last(n) \in DirNames

Parent(n) == SubSeq(n, 1, Len(n) - 1)

\* the directory trees of the model: a node is in a directory of the tree
Trees ==
    {T \in SUBSET AllNodes :
        /\ Cardinality(T) <= MaxTreeNodes
        /\ \A n \in T : Len(n) > 1 => (Parent(n) \in T /\ IsDirNode(Parent(n)))}

\* the directories nested anywhere under the target
NestedDirs == {n \in tree : IsDirNode(n)}

\* dirs of the triple os.walk yields for the directory r
ChildDirs(r) == {n \in NestedDirs : Len(n) = Len(r) + 1 /\ Parent(n) = r}

\* the orders in which scandir may list the members of S
Orders(S) ==
    {s \in [1..Cardinality(S) -> S] : \A i, j \in DOMAIN s : i # j => s[i] # s[j]}

Untouched == [mode |-> "orig", owner |-> "orig"]

\* where self.path lies in the ROM root: in a partition or outside of all
PermTargets == { <<"system", "p">>, <<"data", "x">> }

InitPerm ==
    /\ action_type \in {"apk", "dir"}
    /\ recursive \in BOOLEAN
    /\ is_windows \in BOOLEAN
    /\ update_script \in BOOLEAN
    /\ rom_root \in BOOLEAN
    /\ path_parts \in PermTargets
    /\ tree \in (IF action_type = "dir" THEN Trees ELSE {{}})
    /\ ppc = "start"
    /\ success = TRUE
    /\ walk_pending = <<>>
    /\ walk_dirs = <<>>
    /\ perms = [n \in tree \cup {<<>>} |-> Untouched]
    /\ setPermsCalls = <<>>
    /\ task_finished = <<>>
    /\ script_update_finished = <<>>

\* what one call of _set_perms can do: log only (Windows), chmod and chown
\* work, os.chmod raises, or os.chown raises after os.chmod has worked
SetPermsOutcomes ==
    IF is_windows THEN {"logged"} ELSE {"ok", "chmod_raises", "chown_raises"}

\* the value _set_perms returns
Returned(o) == o \in {"logged", "ok"}

\* perm_octal = 0o755 if is_dir else 0o644
perm_octal(is_dir) == IF is_dir THEN "755" ELSE "644"

\* _set_perms(target_path, is_dir) with outcome o
SetPerms(target_path, is_dir, o) ==
    /\ perms' = [perms EXCEPT ![target_path] =
                    CASE o = "ok" -> [mode |-> perm_octal(is_dir), owner |-> "root:root"]
                      [] o = "chown_raises" -> [@ EXCEPT !.mode = perm_octal(is_dir)]
                      [] OTHER -> @]
    /\ setPermsCalls' = Append(setPermsCalls,
                               [path |-> target_path, is_dir |-> is_dir, ok |-> Returned(o)])

\* run() up to the recursive sweep
PermStart ==
    /\ ppc = "start"
    /\ \E o \in SetPermsOutcomes :
          /\ SetPerms(<<>>, action_type = "dir", o)
          /\ IF action_type = "apk"
             THEN /\ success' = Returned(o)
                  /\ ppc' = "finish"
                  /\ UNCHANGED <<task_finished, walk_pending>>
             ELSE IF ~Returned(o)
             THEN \* self.task_finished.emit(False); return
                  /\ task_finished' = Append(task_finished, FALSE)
                  /\ ppc' = "end"
                  /\ UNCHANGED <<success, walk_pending>>
             ELSE /\ ppc' = IF recursive THEN "walk" ELSE "finish"
                  /\ walk_pending' = IF recursive THEN << <<>> >> ELSE <<>>
                  /\ UNCHANGED <<success, task_finished>>
    /\ UNCHANGED <<action_type, recursive, is_windows, update_script, rom_root, path_parts,
                   tree, walk_dirs, script_update_finished>>

\* os.walk yields (root, dirs, files) for the next directory, top-down
WalkYield ==
    /\ ppc = "walk"
    /\ walk_dirs = <<>>
    /\ walk_pending # <<>>
    /\ \E dirs \in Orders(ChildDirs(Head(walk_pending))) :
          /\ walk_dirs' = dirs
          /\ walk_pending' = dirs \o Tail(walk_pending)
    /\ UNCHANGED <<action_type, recursive, is_windows, update_script, rom_root, path_parts,
                   tree, ppc, success, perms, setPermsCalls, task_finished,
                   script_update_finished>>

\* the sweep stops at the first nested directory that fails
WalkSetPermsAbort ==
    /\ ppc = "walk"
    /\ walk_dirs # <<>>
    /\ \E o \in SetPermsOutcomes :
          /\ SetPerms(Head(walk_dirs), TRUE, o)
          /\ success' = (success /\ Returned(o))
          /\ walk_dirs' = IF Returned(o) THEN Tail(walk_dirs) ELSE <<>>
          /\ walk_pending' = IF Returned(o) THEN walk_pending ELSE <<>>
    /\ UNCHANGED <<action_type, recursive, is_windows, update_script, rom_root, path_parts,
                   tree, ppc, task_finished, script_update_finished>>

\* for name in dirs: if not self._set_perms(dir_path, is_dir=True): success = False
WalkSetPerms ==
    /\ ppc = "walk"
    /\ walk_dirs # <<>>
    /\ \E o \in SetPermsOutcomes :
          /\ SetPerms(Head(walk_dirs), TRUE, o)
          /\ success' = (success /\ Returned(o))
          /\ walk_dirs' = Tail(walk_dirs)
          /\ UNCHANGED walk_pending
    /\ UNCHANGED <<action_type, recursive, is_windows, update_script, rom_root, path_parts,
                   tree, ppc, task_finished, script_update_finished>>

\* os.walk is exhausted
WalkEnd ==
    /\ ppc = "walk"
    /\ walk_dirs = <<>>
    /\ walk_pending = <<>>
    /\ ppc' = "finish"
    /\ UNCHANGED <<action_type, recursive, is_windows, update_script, rom_root, path_parts,
                   tree, success, walk_pending, walk_dirs, perms, setPermsCalls,
                   task_finished, script_update_finished>>

\* the hook runs whatever the permission operation returned
HookAlways == update_script /\ rom_root /\ ~is_windows

\* if success and self.update_script and self.rom_root and not self.is_windows
HookCondition == success /\ update_script /\ rom_root /\ ~is_windows

\* entry = {"path_abs": self.path, "type": ..., "mode_expect": mode_expect_str};
\* is_dir is what os.path.isdir(self.path) gives for the target of the action
HookEntry ==
    [parts |-> path_parts,
     is_dir |-> action_type = "dir",
     mode_expect |-> IF action_type = "dir" THEN <<"7", "5", "5">> ELSE <<"6", "4", "4">>]

\* self.task_finished.emit(success), then the hook of the updater-script:
\* result = update_updater_script([entry], self.rom_root), emitted
PermFinish ==
    /\ ppc = "finish"
    /\ task_finished' = Append(task_finished, success)
    /\ IF HookCondition
       THEN /\ UpdateScript(<<HookEntry>>)
            /\ script_update_finished' = Append(script_update_finished, result')
       ELSE UNCHANGED <<mergeVars, script_update_finished>>
    /\ ppc' = "end"
    /\ UNCHANGED <<action_type, recursive, is_windows, update_script, rom_root, path_parts,
                   tree, success, walk_pending, walk_dirs, perms, setPermsCalls>>

(***************************************************************************)
(* Properties of PermissionThread (checked under SpecPerm).                *)
(***************************************************************************)
\* the paths _set_perms has been called on, and those on which it failed
CalledOn == {setPermsCalls[i].path : i \in DOMAIN setPermsCalls}
FailedOn == {setPermsCalls[i].path : i \in {j \in DOMAIN setPermsCalls : ~setPermsCalls[j].ok}}

\* C30: with action 'dir' and the recursive flag, once the target directory
\* has taken the permission, _set_perms is called with the directory profile
\* exactly once on every nested directory and on no regular file, also after
\* a nested directory has failed; where it is executed (not on Windows) every
\* directory whose call worked has 755 root:root and no file is changed; and
\* the result is failure exactly if some nested directory failed.
C30_RecursiveSweepBestEffort ==
    (action_type = "dir" /\ recursive /\ ppc = "end" /\ <<>> \notin FailedOn) =>
        /\ CalledOn = {<<>>} \cup NestedDirs
        /\ Len(setPermsCalls) = Cardinality(NestedDirs) + 1
        /\ \A i \in DOMAIN setPermsCalls : setPermsCalls[i].is_dir
        /\ \A n \in tree : ~IsDirNode(n) => perms[n] = Untouched
        /\ ~is_windows =>
              \A n \in CalledOn \ FailedOn : perms[n] = [mode |-> "755", owner |-> "root:root"]
        /\ task_finished = << FailedOn = {} >>

\* the first nested directory attempted failed, two more were attempted after
\* it, among them one below the failed one
C30_Witness ==
    /\ action_type = "dir" /\ recursive /\ ppc = "end"
    /\ tree = { <<"a">>, <<"a", "b">>, <<"c">>, <<"f">> }
    /\ Len(setPermsCalls) = 4
    /\ setPermsCalls[2] = [path |-> <<"a">>, is_dir |-> TRUE, ok |-> FALSE]
    /\ setPermsCalls[3].ok /\ setPermsCalls[4].ok
    /\ task_finished = <<FALSE>>

\* C31: update_updater_script is invoked at most once by a run, with exactly
\* one entry (the target path, its class and its mode), and only by a run whose
\* every _set_perms call worked, that reported overall success and that was
\* asked to update the script; after a failure on the top-level path or in
\* the recursive sweep the merge is not invoked: the script is not opened,
\* keeps its content, and no backup and no result appear.
C31_MergeOnlyAfterSuccess ==
    /\ nCalls <= 1
    /\ Len(script_update_finished) = nCalls
    /\ nCalls = 1 =>
          /\ ppc = "end"
          /\ update_script
          /\ FailedOn = {}
          /\ task_finished = <<TRUE>>
          /\ lastEntries = <<HookEntry>>
          /\ script_update_finished = <<result>>
    /\ FailedOn # {} =>
          /\ nCalls = 0
          /\ script = script0
          /\ scriptOpens = 0
          /\ backups = <<>>
          /\ script_update_finished = <<>>
          /\ (ppc = "end" => task_finished = <<FALSE>>)

\* a recursive sweep over two nested directories worked and the one entry of
\* the target directory was merged into the script
C31_Witness ==
    /\ action_type = "dir" /\ recursive /\ ppc = "end"
    /\ Len(setPermsCalls) = 3 /\ FailedOn = {}
    /\ nCalls = 1 /\ lastCall = "ok"
    /\ script0 = <<TXT, NL, DirP>>
    /\ script = <<TXT, NL, NL, START, NL, DirP, NL, END>>
    /\ script_update_finished = <<result>> /\ result.updated = 1

(***************************************************************************)
(* FilePatcherLogic.patch_build_prop.  The text of build.prop is a         *)
(* sequence of chunks: "\n", " ", "#", "=", and key or value words.        *)
(***************************************************************************)
MaxPropLines == 3
MaxPropRuns == 2

props_to_patch ==
    ("persist.sys.usb.config" :> "mtp,adb") @@ ("persist.service.adb.enable" :> "1")
    @@ ("persist.service.debuggable" :> "1") @@ ("ro.adb.secure" :> "0")
    @@ ("service.adb.tcp.port" :> "5555") @@ ("ro.control_privapp_permissions" :> "disable")
    @@ ("ro.setupwizard.mode" :> "DISABLED") @@ ("setup.wizard.has.run" :> "1")
    @@ ("persist.adb.notify" :> "0")

\* the keys of props_to_patch in insertion order
PropKeys ==
    <<"persist.sys.usb.config", "persist.service.adb.enable", "persist.service.debuggable",
      "ro.adb.secure", "service.adb.tcp.port", "ro.control_privapp_permissions",
      "ro.setupwizard.mode", "setup.wizard.has.run", "persist.adb.notify">>

\* \s, for the chunks of the build.prop and init.rc texts
IsBlankChunk(c) == c \in {" ", "    ", "\n"}

\* f.readlines(): every line keeps its "\n", the last line may have none
RECURSIVE readlines(_)
readlines(t) ==
    IF t = <<>> THEN <<>>
    ELSE LET nl == {i \in DOMAIN t : t[i] = "\n"}
             n == IF nl = {} THEN Len(t) ELSE CHOOSE i \in nl : \A j \in nl : i <= j
         IN <<SubSeq(t, 1, n)>> \o readlines(SubSeq(t, n + 1, Len(t)))

\* str.strip()
strip(l) ==
    LET keep == {i \in DOMAIN l : ~IsBlankChunk(l[i])}
    IN IF keep = {} THEN <<>>
       ELSE SubSeq(l, CHOOSE i \in keep : \A j \in keep : i <= j,
                      CHOOSE i \in keep : \A j \in keep : i >= j)

\* stripped_line and not stripped_line.startswith('#') and '=' in stripped_line
is_prop_line(line) ==
    LET stripped_line == strip(line)
    IN stripped_line # <<>> /\ stripped_line[1] # "#" /\ "=" \in Range(stripped_line)

\* stripped_line.split('=', 1), for a line that holds "="
SplitAt(line) ==
    LET stripped_line == strip(line)
    IN CHOOSE i \in DOMAIN stripped_line :
          stripped_line[i] = "=" /\ \A j \in 1..(i - 1) : stripped_line[j] # "="

KeyOf(line) == strip(SubSeq(strip(line), 1, SplitAt(line) - 1))

ValueOf(line) == strip(SubSeq(strip(line), SplitAt(line) + 1, Len(strip(line))))

\* key in props_to_patch
HasTargetKey(line) ==
    is_prop_line(line) /\ LET k == KeyOf(line)
                          IN Len(k) = 1 /\ k[1] \in DOMAIN props_to_patch

\* current_value != expected_value, for a line with a target key
ValueDiffersNever(line) == FALSE

ValueDiffers(line) == ValueOf(line) # <<props_to_patch[KeyOf(line)[1]]>>

PatchedHeader == <<"#", " ", "Patched by tool", "\n">>

\* the content appended to result_lines for one line
LineContent(line) ==
    IF HasTargetKey(line) /\ ValueDiffers(line)
    THEN PatchedHeader \o <<KeyOf(line)[1], "=", props_to_patch[KeyOf(line)[1]], "\n">>
    ELSE line

\* "".join(...)
RECURSIVE JoinContent(_)
JoinContent(ls) ==
    IF ls = <<>> THEN <<>> ELSE LineContent(Head(ls)) \o JoinContent(Tail(ls))

\* the keys with props_found[key] set
props_found(lines) ==
    {KeyOf(lines[i])[1] : i \in {j \in DOMAIN lines : HasTargetKey(lines[j])}}

\* props_to_add_content, joined, for the keys from position i on
RECURSIVE props_to_add_content(_, _)
props_to_add_content(found, i) ==
    IF i > Len(PropKeys) THEN <<>>
    ELSE (IF PropKeys[i] \in found THEN <<>>
          ELSE <<PropKeys[i], "=", props_to_patch[PropKeys[i]], "\n">>)
         \o props_to_add_content(found, i + 1)

\* final_content of patch_build_prop
patch_build_prop(t) ==
    LET lines == readlines(t)
        to_add == props_to_add_content(props_found(lines), 1)
    IN JoinContent(lines)
       \o (IF to_add = <<>> THEN <<>>
           ELSE (IF lines = <<>> \/ strip(Last(lines)) # <<>> THEN <<"\n">> ELSE <<>>)
                \o PatchedHeader \o to_add)

\* ---- inputs ----
PropLines ==
    { <<"ro.adb.secure", "=", "0", "\n">>,
      <<"ro.adb.secure", "=", "1", "\n">>,
      <<" ", "ro.adb.secure", " ", "=", " ", "0", " ", "\n">>,
      <<"ro.adb.secure", "=", "0", "=", "\n">>,
      <<"#", "ro.adb.secure", "=", "1", "\n">>,
      <<"persist.sys.usb.config", "=", "mtp", "\n">>,
      <<"persist.sys.usb.config", "\n">>,
      <<"ro.build.id", "=", "1", "\n">>,
      <<" ", "\n">>,
      <<"\n">> }

RECURSIVE PropTexts(_)
PropTexts(n) ==
    IF n = 0 THEN {<<>>}
    ELSE PropTexts(n - 1) \cup {t \o l : t \in PropTexts(n - 1), l \in PropLines}

\* the text without the line terminator of its last line
NoFinalNewline(t) ==
    IF t # <<>> /\ Last(t) = "\n" THEN SubSeq(t, 1, Len(t) - 1) ELSE t

\* every target but ro.adb.secure and persist.sys.usb.config, with its value
OtherTargets ==
    <<"persist.service.adb.enable", "=", "1", "\n",
      "persist.service.debuggable", "=", "1", "\n",
      "service.adb.tcp.port", "=", "5555", "\n",
      "ro.control_privapp_permissions", "=", "disable", "\n",
      "ro.setupwizard.mode", "=", "DISABLED", "\n",
      "setup.wizard.has.run", "=", "1", "\n",
      "persist.adb.notify", "=", "0", "\n",
      "persist.sys.usb.config", "=", "mtp,adb", "\n">>

BuildPropInputs ==
    LET texts == PropTexts(MaxPropLines) \cup {OtherTargets \o t : t \in PropTexts(MaxPropLines - 1)}
    IN texts \cup {NoFinalNewline(t) : t \in texts}

InitProp ==
    /\ build_prop0 \in BuildPropInputs
    /\ build_prop = build_prop0
    /\ build_prop_prev = <<>>
    /\ nPropRuns = 0

\* one call of patch_build_prop on the file, the caller saving final_content
PatchBuildProp ==
    /\ nPropRuns < MaxPropRuns
    /\ build_prop' = patch_build_prop(build_prop)
    /\ build_prop_prev' = build_prop
    /\ nPropRuns' = nPropRuns + 1
    /\ UNCHANGED build_prop0

\* the non-comment property lines of a text
PropertyLines(t) == {l \in Range(readlines(t)) : is_prop_line(l)}

\* C38: after patch_build_prop every one of the nine target properties is
\* present, every non-comment property line whose key is a target carries
\* the target value, and patching the output again returns the same text.
C38_BuildPropPatched ==
    nPropRuns >= 1 =>
        LET present == {<<KeyOf(l), ValueOf(l)>> : l \in PropertyLines(build_prop)}
        IN /\ \A k \in DOMAIN props_to_patch : \E kv \in present : kv[1] = <<k>>
           /\ \A kv \in present :
                 \A k \in DOMAIN props_to_patch :
                     kv[1] = <<k>> => kv[2] = <<props_to_patch[k]>>
           /\ nPropRuns = 2 => build_prop = build_prop_prev

\* a wrong value, a duplicate and missing keys were patched, and the second
\* patch ran
C38_Witness ==
    /\ nPropRuns = 2
    /\ build_prop0 = <<"ro.adb.secure", "=", "1", "\n", "ro.adb.secure", "=", "0", "\n",
                       "persist.sys.usb.config", "=", "mtp">>
    /\ build_prop = <<"#", " ", "Patched by tool", "\n", "ro.adb.secure", "=", "0", "\n",
                      "ro.adb.secure", "=", "0", "\n">>
                    \o PatchedHeader \o <<"persist.sys.usb.config", "=", "mtp,adb", "\n", "\n">>
                    \o PatchedHeader
                    \o <<"persist.service.adb.enable", "=", "1", "\n",
                         "persist.service.debuggable", "=", "1", "\n",
                         "service.adb.tcp.port", "=", "5555", "\n",
                         "ro.control_privapp_permissions", "=", "disable", "\n",
                         "ro.setupwizard.mode", "=", "DISABLED", "\n",
                         "setup.wizard.has.run", "=", "1", "\n",
                         "persist.adb.notify", "=", "0", "\n">>

(***************************************************************************)
(* AdbPatcherThread.patch_init_rc.  The text of init.rc is a sequence of   *)
(* chunks: "\n", " ", "    ", "#", words, and the two setprop commands.    *)
(***************************************************************************)
MaxRcLines == 3
MaxRcRuns == 2

BOOTMODE == "setprop ro.bootmode \"normal\""
POWERCTL == "setprop sys.powerctl \"reboot\""

\* index of the first chunk at or after i that is not white space (Len + 1 if none)
RECURSIVE SkipWs(_, _)
SkipWs(t, i) ==
    IF i > Len(t) \/ ~IsBlankChunk(t[i]) THEN i ELSE SkipWs(t, i + 1)

\* ^ under re.MULTILINE
LineStart(t, i) == i = 1 \/ t[i - 1] = "\n"

\* \s*$ after chunk c: index of the last chunk matched, or 0 if it cannot match
BlankTail(t, c) ==
    LET r == SkipWs(t, c + 1) - 1
        nls == {j \in (c + 1)..r : t[j] = "\n"}
    IN IF r = Len(t) THEN r
       ELSE IF nls = {} THEN 0
       ELSE (CHOOSE j \in nls : \A k \in nls : j >= k) - 1

\* ^\s*on\s+charger\s*$ matched at position s: index of its last chunk, or 0
OnChargerEnd(t, s) ==
    LET k == SkipWs(t, s)
        c == SkipWs(t, k + 1)
    IN IF /\ LineStart(t, s)
          /\ k <= Len(t) /\ t[k] = "on"
          /\ c > k + 1
          /\ c <= Len(t) /\ t[c] = "charger"
       THEN BlankTail(t, c)
       ELSE 0

\* on_charger_pattern.search(content): <<match.start(), match.end()>> as the
\* indices of the first and last chunk of the match, or <<>>
on_charger_search(t) ==
    LET starts == {s \in DOMAIN t : OnChargerEnd(t, s) # 0}
    IN IF starts = {} THEN <<>>
       ELSE LET s == CHOOSE x \in starts : \A y \in starts : x <= y
            IN <<s, OnChargerEnd(t, s)>>

\* ^\s*on\s+ matches at position s
NextOnAt(t, s) ==
    LET k == SkipWs(t, s)
    IN /\ LineStart(t, s)
       /\ k < Len(t) /\ t[k] = "on"
       /\ IsBlankChunk(t[k + 1])

\* next_on_pattern.search(content, pos): index of the first chunk of the
\* match, or Len + 1 when there is none (block_end_pos = len(content))
block_end_pos(t, pos) ==
    LET starts == {s \in pos..Len(t) : NextOnAt(t, s)}
    IN IF starts = {} THEN Len(t) + 1
       ELSE CHOOSE x \in starts : \A y \in starts : x <= y

\* 'setprop ...' not in charger_block_content
Missing(block, cmd) == cmd \notin Range(block)

\* "\n" + "\n".join(missing_lines)
lines_to_insert(block) ==
    (IF Missing(block, BOOTMODE) THEN <<"\n", "    ", BOOTMODE>> ELSE <<>>)
    \o (IF Missing(block, POWERCTL) THEN <<"\n", "    ", POWERCTL>> ELSE <<>>)

comment_to_add == <<"#", " ", "Patched by tool: Update 'on charger' block", "\n">>

charger_block_to_add ==
    <<"\n", "\n", "#", " ", "Patched by tool: Add 'on charger' block for auto-boot", "\n",
      "on", " ", "charger", "\n",
      "    ", BOOTMODE, "\n",
      "    ", POWERCTL, "\n",
      "    ", "class_start charger", "\n">>

\* self.modified_contents['init.rc'] for a file that was read
patch_init_rc(content) ==
    LET match == on_charger_search(content)
    IN IF match # <<>>
       THEN LET block_start_pos == match[2] + 1
                charger_block_content ==
                    SubSeq(content, block_start_pos, block_end_pos(content, block_start_pos) - 1)
                to_insert == lines_to_insert(charger_block_content)
            IN IF to_insert # <<>>
               THEN SubSeq(content, 1, match[1] - 1) \o comment_to_add
                    \o SubSeq(content, match[1], match[2])
                    \o to_insert
                    \o SubSeq(content, match[2] + 1, Len(content))
               ELSE content
       ELSE strip(content) \o <<"\n">> \o charger_block_to_add

\* ---- inputs ----
RcLines ==
    { <<"on", " ", "charger", "\n">>,
      <<" ", "on", "    ", "charger", " ", "\n">>,
      <<"on", " ", "boot", "\n">>,
      <<"    ", BOOTMODE, "\n">>,
      <<"    ", POWERCTL, "\n">>,
      <<"    ", "class_start charger", "\n">>,
      <<"    ", "#", " ", BOOTMODE, "\n">>,
      <<"\n">> }

RECURSIVE RcTexts(_)
RcTexts(n) ==
    IF n = 0 THEN {<<>>}
    ELSE RcTexts(n - 1) \cup {t \o l : t \in RcTexts(n - 1), l \in RcLines}

InitRcInputs == RcTexts(MaxRcLines) \cup {NoFinalNewline(t) : t \in RcTexts(MaxRcLines)}

InitRc ==
    /\ init_rc0 \in InitRcInputs
    /\ init_rc = init_rc0
    /\ init_rc_prev = <<>>
    /\ nRcRuns = 0

\* one call of patch_init_rc on the file, the caller saving the content
PatchInitRc ==
    /\ nRcRuns < MaxRcRuns
    /\ init_rc' = patch_init_rc(init_rc)
    /\ init_rc_prev' = init_rc
    /\ nRcRuns' = nRcRuns + 1
    /\ UNCHANGED init_rc0

\* the line is a trigger line: its first word is "on"
IsTrigger(line) == strip(line) # <<>> /\ strip(line)[1] = "on"

\* the line is the trigger "on charger"
IsOnCharger(line) ==
    LET words == SelectSeq(line, LAMBDA c : ~IsBlankChunk(c))
    IN IsTrigger(line) /\ words = <<"on", "charger">>

\* the commands of the block of trigger line i: the lines up to the next trigger
BlockCommands(lines, i) ==
    {strip(lines[j]) : j \in {x \in (i + 1)..Len(lines) :
                                \A y \in (i + 1)..x : ~IsTrigger(lines[y])}}

\* C39: after patch_init_rc the text contains an 'on charger' trigger whose
\* block includes both setprop commands, and patching the output again
\* leaves the text unchanged.
C39_InitRcPatched ==
    nRcRuns >= 1 =>
        /\ LET lines == readlines(init_rc)
           IN \E i \in DOMAIN lines :
                 /\ IsOnCharger(lines[i])
                 /\ <<BOOTMODE>> \in BlockCommands(lines, i)
                 /\ <<POWERCTL>> \in BlockCommands(lines, i)
        /\ nRcRuns = 2 => init_rc = init_rc_prev

(***************************************************************************)
(* AdbPatcherThread: cancel() and run().  The files at build_prop_path and *)
(* init_rc_path hold the texts build_prop and init_rc; a signal is         *)
(* <<name, success, files>>.                                               *)
(***************************************************************************)
AdbPropFiles ==
    { <<>>,
      <<"ro.adb.secure", "=", "1", "\n">>,
      <<"ro.build.id", "=", "1", "\n", "persist.sys.usb.config", "=", "mtp,adb">> }

AdbRcFiles ==
    { <<>>,
      <<"on", " ", "boot", "\n">>,
      <<"on", " ", "charger", "\n", "    ", POWERCTL, "\n">> }

InitAdb ==
    /\ build_prop_path \in BOOLEAN
    /\ init_rc_path \in BOOLEAN
    /\ adb_cancel_requested = FALSE
    /\ adbCancelAt = "never"
    /\ apc = "start"
    /\ modified_contents = <<>>
    /\ adb_signals = <<>>
    /\ build_prop0 \in (IF build_prop_path THEN AdbPropFiles ELSE {<<>>})
    /\ build_prop = build_prop0
    /\ build_prop_prev = <<>>
    /\ nPropRuns = 0
    /\ init_rc0 \in (IF init_rc_path THEN AdbRcFiles ELSE {<<>>})
    /\ init_rc = init_rc0
    /\ init_rc_prev = <<>>
    /\ nRcRuns = 0

\* cancel(): sets the flag, whatever run() is doing
AdbCancel ==
    /\ ~adb_cancel_requested
    /\ adb_cancel_requested' = TRUE
    /\ adbCancelAt' = apc
    /\ UNCHANGED <<build_prop_path, init_rc_path, apc, modified_contents, adb_signals>>

\* QThread.start()
AdbStart ==
    /\ apc = "start"
    /\ apc' = "build_prop"
    /\ UNCHANGED <<build_prop_path, init_rc_path, adb_cancel_requested, adbCancelAt,
                   modified_contents, adb_signals>>

\* the except clause of run()
AdbFail ==
    /\ adb_signals' = Append(adb_signals, <<"patch_finished", FALSE, <<>>>>)
    /\ apc' = "returning"

\* if self.build_prop_path: ... (the file may not be readable)
AdbBuildProp ==
    /\ apc = "build_prop"
    /\ IF build_prop_path
       THEN \E readable \in BOOLEAN :
               IF readable
               THEN /\ modified_contents' =
                          ("build.prop" :> patch_build_prop(build_prop)) @@ modified_contents
                    /\ apc' = "init_rc"
                    /\ UNCHANGED adb_signals
               ELSE AdbFail /\ UNCHANGED modified_contents
       ELSE apc' = "init_rc" /\ UNCHANGED <<modified_contents, adb_signals>>
    /\ UNCHANGED <<build_prop_path, init_rc_path, adb_cancel_requested, adbCancelAt>>

\* the step with a cancellation checkpoint in front of it
AdbInitRcChecked ==
    /\ apc = "init_rc"
    /\ IF adb_cancel_requested
       THEN /\ adb_signals' = Append(adb_signals, <<"cancelled", FALSE, <<>>>>)
            /\ apc' = "returning"
            /\ UNCHANGED modified_contents
       ELSE /\ apc' = "emit"
            /\ UNCHANGED <<modified_contents, adb_signals>>
    /\ UNCHANGED <<build_prop_path, init_rc_path, adb_cancel_requested, adbCancelAt>>

\* if self.init_rc_path: self.patch_init_rc() (a read error stores None)
AdbInitRc ==
    /\ apc = "init_rc"
    /\ IF init_rc_path
       THEN \E readable \in BOOLEAN :
               modified_contents' =
                   ("init.rc" :> (IF readable THEN patch_init_rc(init_rc) ELSE <<"None">>))
                   @@ modified_contents
       ELSE UNCHANGED modified_contents
    /\ apc' = "emit"
    /\ UNCHANGED <<build_prop_path, init_rc_path, adb_cancel_requested, adbCancelAt,
                   adb_signals>>

\* self.patch_finished.emit(True, self.modified_contents)
AdbEmit ==
    /\ apc = "emit"
    /\ adb_signals' = Append(adb_signals, <<"patch_finished", TRUE, modified_contents>>)
    /\ apc' = "returning"
    /\ UNCHANGED <<build_prop_path, init_rc_path, adb_cancel_requested, adbCancelAt,
                   modified_contents>>

\* run() returns: isRunning() is False from here on
AdbReturn ==
    /\ apc = "returning"
    /\ apc' = "end"
    /\ UNCHANGED <<build_prop_path, init_rc_path, adb_cancel_requested, adbCancelAt,
                   modified_contents, adb_signals>>

\* C37: whenever cancel() is called, run() emits patch_finished exactly
\* once, when it ends, and the cancelled signal is never emitted.
C37_CancelNeverHonoured ==
    /\ \A i \in DOMAIN adb_signals : adb_signals[i][1] = "patch_finished"
    /\ Len(adb_signals) = (IF apc \in {"returning", "end"} THEN 1 ELSE 0)

\* cancel() was called while run() was between its two files, and run()
\* ended with the success signal and both contents
C37_Witness ==
    /\ adbCancelAt = "init_rc"
    /\ adb_cancel_requested
    /\ apc = "end"
    /\ build_prop_path /\ init_rc_path
    /\ adb_signals = <<<<"patch_finished", TRUE, modified_contents>>>>
    /\ DOMAIN modified_contents = {"build.prop", "init.rc"}
    /\ modified_contents["init.rc"] = patch_init_rc(init_rc0)
    /\ init_rc0 = <<"on", " ", "boot", "\n">>

(***************************************************************************)
(* MainWindow.smart_auto_patch and its slots.  The GPS patcher thread is   *)
(* reduced to what the slots observe: it emits one terminal signal and     *)
(* then runs the cleanup of its finally clause before run() returns; the   *)
(* ADB patcher thread takes the steps of AdbPatcherThread.run.  Slots run  *)
(* in the main thread, one queued signal at a time.                        *)
(***************************************************************************)
SmartFiles == {"services.jar", "build.prop", "init.rc"}

GpsTerminalEvents == { <<"patch_finished", TRUE>>, <<"patch_finished", FALSE>>, <<"cancelled">> }

InitSmart ==
    /\ smart_detected_files \in SUBSET SmartFiles
    /\ smart_overwrite \in BOOLEAN
    /\ spc = "idle"
    /\ ui_busy = FALSE
    /\ endBusyCalls = 0
    /\ gpc = "none"
    /\ gps_signals = <<>>
    /\ gps_delivered = 0
    /\ adb_delivered = 0
    /\ saved_files = <<>>
    /\ build_prop_path = FALSE
    /\ init_rc_path = FALSE
    /\ adb_cancel_requested = FALSE
    /\ adbCancelAt = "never"
    /\ apc = "start"
    /\ modified_contents = <<>>
    /\ adb_signals = <<>>
    /\ build_prop0 = (IF "build.prop" \in smart_detected_files
                      THEN <<"ro.adb.secure", "=", "1", "\n">> ELSE <<>>)
    /\ build_prop = build_prop0
    /\ build_prop_prev = <<>>
    /\ nPropRuns = 0
    /\ init_rc0 = (IF "init.rc" \in smart_detected_files
                   THEN <<"on", " ", "boot", "\n">> ELSE <<>>)
    /\ init_rc = init_rc0
    /\ init_rc_prev = <<>>
    /\ nRcRuns = 0

\* smart_auto_patch: lock the UI, then start the threads for the detected files
SmartAutoPatch ==
    /\ spc = "idle"
    /\ IF smart_detected_files = {}
       THEN /\ spc' = "done"
            /\ UNCHANGED <<ui_busy, gpc, build_prop_path, init_rc_path, apc>>
       ELSE /\ spc' = "started"
            /\ ui_busy' = TRUE
            /\ gpc' = (IF "services.jar" \in smart_detected_files THEN "running" ELSE gpc)
            /\ IF "build.prop" \in smart_detected_files \/ "init.rc" \in smart_detected_files
               THEN /\ build_prop_path' = ("build.prop" \in smart_detected_files)
                    /\ init_rc_path' = ("init.rc" \in smart_detected_files)
                    /\ apc' = "build_prop"
               ELSE UNCHANGED <<build_prop_path, init_rc_path, apc>>
    /\ UNCHANGED <<smart_detected_files, smart_overwrite, endBusyCalls, gps_signals,
                   gps_delivered, adb_delivered, saved_files,
                   adb_cancel_requested, adbCancelAt, modified_contents, adb_signals>>

\* GpsPatcherThread.run emits its terminal signal; the finally clause follows
GpsEmit ==
    /\ gpc = "running"
    /\ \E ev \in GpsTerminalEvents : gps_signals' = Append(gps_signals, ev)
    /\ gpc' = "cleanup"
    /\ UNCHANGED <<smart_detected_files, smart_overwrite, spc, ui_busy, endBusyCalls,
                   gps_delivered, adb_delivered, saved_files>>

\* an exception leaves the try block of GpsPatcherThread.run: no signal
GpsRaise ==
    /\ gpc = "running"
    /\ gpc' = "cleanup"
    /\ UNCHANGED <<smart_detected_files, smart_overwrite, spc, ui_busy, endBusyCalls,
                   gps_signals, gps_delivered, adb_delivered, saved_files>>

\* the finally clause is done and run() returns: isRunning() is False from here on
GpsFinish ==
    /\ gpc = "cleanup"
    /\ gpc' = "end"
    /\ UNCHANGED <<smart_detected_files, smart_overwrite, spc, ui_busy, endBusyCalls,
                   gps_signals, gps_delivered, adb_delivered, saved_files>>

\* not hasattr(self, 'gps_patcher_thread') or not self.gps_patcher_thread.isRunning()
gps_done == gpc \in {"none", "end"}

\* not hasattr(self, 'adb_patcher_thread') or not self.adb_patcher_thread.isRunning()
adb_done == apc \in {"start", "end"}

all_done == gps_done /\ adb_done

\* _check_smart_patch_complete
check_smart_patch_complete ==
    IF all_done
    THEN ui_busy' = FALSE /\ endBusyCalls' = endBusyCalls + 1
    ELSE UNCHANGED <<ui_busy, endBusyCalls>>

\* smart_on_gps_finished, the slot of the GPS thread's patch_finished
SmartOnGpsFinished ==
    /\ gps_delivered < Len(gps_signals)
    /\ gps_signals[gps_delivered + 1][1] = "patch_finished"
    /\ gps_delivered' = gps_delivered + 1
    /\ check_smart_patch_complete
    /\ UNCHANGED <<smart_detected_files, smart_overwrite, spc, gpc, gps_signals,
                   adb_delivered, saved_files>>

\* smart_on_cancelled, the slot of the cancelled signal of both threads
SmartOnCancelled ==
    /\ \E src \in {"gps", "adb"} :
          IF src = "gps"
          THEN /\ gps_delivered < Len(gps_signals)
               /\ gps_signals[gps_delivered + 1][1] = "cancelled"
               /\ gps_delivered' = gps_delivered + 1
               /\ UNCHANGED adb_delivered
          ELSE /\ adb_delivered < Len(adb_signals)
               /\ adb_signals[adb_delivered + 1][1] = "cancelled"
               /\ adb_delivered' = adb_delivered + 1
               /\ UNCHANGED gps_delivered
    /\ ui_busy' = FALSE
    /\ endBusyCalls' = endBusyCalls + 1
    /\ UNCHANGED <<smart_detected_files, smart_overwrite, spc, gpc, gps_signals, saved_files>>

\* modified_files.items(), in insertion order
SaveOrder(files) ==
    SelectSeq(<<"build.prop", "init.rc">>, LAMBDA f : f \in DOMAIN files)

\* save_path: the original file, or the file of that name in patched_dir
SavePlace(f) ==
    <<IF smart_overwrite /\ f \in smart_detected_files THEN "original" ELSE "patched", f>>

\* smart_save_adb_files, the slot of the ADB thread's patch_finished: the
\* first k files are written, an exception at the next one ends the loop
\* (with that file truncated when open() had succeeded)
SmartSaveAdbFiles ==
    /\ adb_delivered < Len(adb_signals)
    /\ adb_signals[adb_delivered + 1][1] = "patch_finished"
    /\ LET ok == adb_signals[adb_delivered + 1][2]
           files == adb_signals[adb_delivered + 1][3]
           order == SaveOrder(files)
       IN IF ~ok \/ DOMAIN files = {}
          THEN UNCHANGED saved_files
          ELSE \E k \in 0..Len(order), truncated \in BOOLEAN :
                  /\ \A i \in 1..k : files[order[i]] # <<"None">>
                  /\ k = Len(order) => ~truncated
                  /\ saved_files' =
                        [p \in {SavePlace(order[i]) : i \in 1..k} |-> files[p[2]]]
                        @@ (IF truncated THEN SavePlace(order[k + 1]) :> <<>> ELSE <<>>)
                        @@ saved_files
    /\ adb_delivered' = adb_delivered + 1
    /\ check_smart_patch_complete
    /\ UNCHANGED <<smart_detected_files, smart_overwrite, spc, gpc, gps_signals,
                   gps_delivered>>

\* C36: in a smart auto-patch run that started both threads, once both have
\* emitted their terminal signals the UI lock is eventually released.
C36_BusyEventuallyReleased ==
    (spc = "started" /\ gps_signals # <<>> /\ adb_signals # <<>>) ~> ~ui_busy

InitMergeIdle ==
    /\ script = <<>>
    /\ script0 = <<>>
    /\ prevScript = <<>>
    /\ lastItems = <<>>
    /\ prevItems = <<>>
    /\ nMerges = 0
    /\ result = NoResult
    /\ backups = <<>>
    /\ scriptOpens = 0
    /\ nCalls = 0
    /\ lastCall = "none"
    /\ lastEntries = <<>>
    /\ script_exists = TRUE

InitPermIdle ==
    /\ action_type = "apk"
    /\ recursive = FALSE
    /\ is_windows = FALSE
    /\ update_script = FALSE
    /\ rom_root = FALSE
    /\ path_parts = <<"system", "p">>
    /\ tree = {}
    /\ ppc = "start"
    /\ success = TRUE
    /\ walk_pending = <<>>
    /\ walk_dirs = <<>>
    /\ perms = [n \in {<<>>} |-> Untouched]
    /\ setPermsCalls = <<>>
    /\ task_finished = <<>>
    /\ script_update_finished = <<>>

InitRuleIdle ==
    /\ smali = <<>>
    /\ smali0 = <<>>
    /\ ruleDone = "none"
    /\ count_bool = 0
    /\ count_int = 0
    /\ count_mock = 0

InitPropIdle ==
    /\ build_prop = <<>>
    /\ build_prop0 = <<>>
    /\ build_prop_prev = <<>>
    /\ nPropRuns = 0

InitRcIdle ==
    /\ init_rc = <<>>
    /\ init_rc0 = <<>>
    /\ init_rc_prev = <<>>
    /\ nRcRuns = 0

InitAdbIdle ==
    /\ build_prop_path = FALSE
    /\ init_rc_path = FALSE
    /\ adb_cancel_requested = FALSE
    /\ adbCancelAt = "never"
    /\ apc = "start"
    /\ modified_contents = <<>>
    /\ adb_signals = <<>>

InitSmartIdle ==
    /\ smart_detected_files = {}
    /\ smart_overwrite = FALSE
    /\ spc = "idle"
    /\ ui_busy = FALSE
    /\ endBusyCalls = 0
    /\ gpc = "none"
    /\ gps_signals = <<>>
    /\ gps_delivered = 0
    /\ adb_delivered = 0
    /\ saved_files = <<>>

InitToolIdle == InitPropIdle /\ InitRcIdle /\ InitAdbIdle /\ InitSmartIdle

Init == InitPipe /\ InitMergeIdle /\ InitRuleIdle /\ InitPermIdle /\ InitToolIdle

Next ==
    \/ (Cancel /\ UNCHANGED <<mergeVars, ruleVars, permVars, toolVars>>)
    \/ (DepCheck /\ UNCHANGED <<mergeVars, ruleVars, permVars, toolVars>>)
    \/ (CheckCancel /\ UNCHANGED <<mergeVars, ruleVars, permVars, toolVars>>)
    \/ (MkTemp /\ UNCHANGED <<mergeVars, ruleVars, permVars, toolVars>>)
    \/ (ScanArchive /\ UNCHANGED <<mergeVars, ruleVars, permVars, toolVars>>)
    \/ (Extract /\ UNCHANGED <<mergeVars, ruleVars, permVars, toolVars>>)
    \/ (\E u \in DOMAIN dtask : DecompileStart(u) /\ UNCHANGED <<mergeVars, ruleVars, permVars, toolVars>>)
    \/ (\E u \in DOMAIN dtask : DecompileFinish(u) /\ UNCHANGED <<mergeVars, ruleVars, permVars, toolVars>>)
    \/ (DecompileJoin /\ UNCHANGED <<mergeVars, ruleVars, permVars, toolVars>>)
    \/ (RemoveDebugLines /\ UNCHANGED <<mergeVars, ruleVars, permVars, toolVars>>)
    \/ (PatchRules /\ UNCHANGED <<mergeVars, ruleVars, permVars, toolVars>>)
    \/ (Decide /\ UNCHANGED <<mergeVars, ruleVars, permVars, toolVars>>)
    \/ (\E d \in DOMAIN rtask : RecompileStart(d) /\ UNCHANGED <<mergeVars, ruleVars, permVars, toolVars>>)
    \/ (\E d \in DOMAIN rtask : RecompileApiFinish(d) /\ UNCHANGED <<mergeVars, ruleVars, permVars, toolVars>>)
    \/ (\E d \in DOMAIN rtask : RecompileDefaultFinish(d) /\ UNCHANGED <<mergeVars, ruleVars, permVars, toolVars>>)
    \/ (RecompileJoin /\ UNCHANGED <<mergeVars, ruleVars, permVars, toolVars>>)
    \/ (RepackOpen /\ UNCHANGED <<mergeVars, ruleVars, permVars, toolVars>>)
    \/ (CopyMember /\ UNCHANGED <<mergeVars, ruleVars, permVars, toolVars>>)
    \/ (CopyDone /\ UNCHANGED <<mergeVars, ruleVars, permVars, toolVars>>)
    \/ (WriteDex /\ UNCHANGED <<mergeVars, ruleVars, permVars, toolVars>>)
    \/ (RepackClose /\ UNCHANGED <<mergeVars, ruleVars, permVars, toolVars>>)
    \/ (RepackFail /\ UNCHANGED <<mergeVars, ruleVars, permVars, toolVars>>)
    \/ (EmitSuccess /\ UNCHANGED <<mergeVars, ruleVars, permVars, toolVars>>)
    \/ (Finally /\ UNCHANGED <<mergeVars, ruleVars, permVars, toolVars>>)

Spec == Init /\ [][Next]_vars

\* runs on archives with many members and at most one unit
ProgressInit == InitRun(MaxMembers, 1, {NoClasses}) /\ InitMergeIdle /\ InitRuleIdle /\ InitPermIdle /\ InitToolIdle

SpecProgress == ProgressInit /\ [][Next]_vars

\* runs on archives whose units disassemble to files with .line annotations
RuleCInit ==
    /\ InitRun(0, MaxUnits, RuleCOutputs)
    /\ members \in RuleCArchives
    /\ jars_present = required_jars
    /\ archive_ok
    /\ \A d \in AllDirs :
          (DOMAIN baksmali_out[d] = {}) <=> (d \notin {OutputDirName(members[i]) : i \in DOMAIN members})
    /\ InitMergeIdle /\ InitRuleIdle /\ InitPermIdle /\ InitToolIdle

SpecRuleC == RuleCInit /\ [][Next]_vars

InitPipeIdle ==
    /\ InitPipe
    /\ overwrite_original = FALSE
    /\ same_path = FALSE
    /\ jars_present = required_jars
    /\ archive_ok = TRUE
    /\ members = <<>>

MergeInit == InitPipeIdle /\ InitMerge /\ InitRuleIdle /\ InitPermIdle /\ InitToolIdle

MergeNext == \E items \in ItemLists : Merge(items) /\ UNCHANGED <<pipeVars, ruleVars, permVars, toolVars>>

SpecMerge == MergeInit /\ [][MergeNext]_vars

UpdateInit == InitPipeIdle /\ InitUpdate /\ InitRuleIdle /\ InitPermIdle /\ InitToolIdle

UpdateNext == \E entries \in EntryLists : UpdateScript(entries) /\ UNCHANGED <<pipeVars, ruleVars, permVars, toolVars>>

SpecUpdate == UpdateInit /\ [][UpdateNext]_vars

RuleAInit == InitPipeIdle /\ InitMergeIdle /\ InitRuleA /\ InitPermIdle /\ InitToolIdle

RuleANext == ApplyRuleA /\ UNCHANGED <<pipeVars, mergeVars, permVars, toolVars>>

SpecRuleA == RuleAInit /\ [][RuleANext]_vars

RuleBInit == InitPipeIdle /\ InitMergeIdle /\ InitRuleB /\ InitPermIdle /\ InitToolIdle

RuleBNext == ApplyRuleB /\ UNCHANGED <<pipeVars, mergeVars, permVars, toolVars>>

SpecRuleB == RuleBInit /\ [][RuleBNext]_vars

PermInit == InitPipeIdle /\ InitUpdate /\ InitRuleIdle /\ InitPerm /\ InitToolIdle

PermNext ==
    \/ (PermStart /\ UNCHANGED <<pipeVars, mergeVars, ruleVars, toolVars>>)
    \/ (WalkYield /\ UNCHANGED <<pipeVars, mergeVars, ruleVars, toolVars>>)
    \/ (WalkSetPerms /\ UNCHANGED <<pipeVars, mergeVars, ruleVars, toolVars>>)
    \/ (WalkEnd /\ UNCHANGED <<pipeVars, mergeVars, ruleVars, toolVars>>)
    \/ (PermFinish /\ UNCHANGED <<pipeVars, ruleVars, toolVars>>)

SpecPerm == PermInit /\ [][PermNext]_vars

PropInit == InitPipeIdle /\ InitMergeIdle /\ InitRuleIdle /\ InitPermIdle /\ InitProp /\ InitRcIdle /\ InitAdbIdle /\ InitSmartIdle

PropNext == PatchBuildProp /\ UNCHANGED <<pipeVars, mergeVars, ruleVars, permVars, rcVars, adbVars, smartVars>>

SpecBuildProp == PropInit /\ [][PropNext]_vars

RcInit == InitPipeIdle /\ InitMergeIdle /\ InitRuleIdle /\ InitPermIdle /\ InitPropIdle /\ InitRc /\ InitAdbIdle /\ InitSmartIdle

RcNext == PatchInitRc /\ UNCHANGED <<pipeVars, mergeVars, ruleVars, permVars, propVars, adbVars, smartVars>>

SpecInitRc == RcInit /\ [][RcNext]_vars

AdbInit == InitPipeIdle /\ InitMergeIdle /\ InitRuleIdle /\ InitPermIdle /\ InitAdb /\ InitSmartIdle

AdbNext ==
    \/ (AdbCancel /\ UNCHANGED <<pipeVars, mergeVars, ruleVars, permVars, propVars, rcVars, smartVars>>)
    \/ (AdbStart /\ UNCHANGED <<pipeVars, mergeVars, ruleVars, permVars, propVars, rcVars, smartVars>>)
    \/ (AdbBuildProp /\ UNCHANGED <<pipeVars, mergeVars, ruleVars, permVars, propVars, rcVars, smartVars>>)
    \/ (AdbInitRc /\ UNCHANGED <<pipeVars, mergeVars, ruleVars, permVars, propVars, rcVars, smartVars>>)
    \/ (AdbEmit /\ UNCHANGED <<pipeVars, mergeVars, ruleVars, permVars, propVars, rcVars, smartVars>>)
    \/ (AdbReturn /\ UNCHANGED <<pipeVars, mergeVars, ruleVars, permVars, propVars, rcVars, smartVars>>)

SpecAdb == AdbInit /\ [][AdbNext]_vars

SmartInit == InitPipeIdle /\ InitMergeIdle /\ InitRuleIdle /\ InitPermIdle /\ InitSmart

SmartNext ==
    \/ (SmartAutoPatch /\ UNCHANGED <<pipeVars, mergeVars, ruleVars, permVars, propVars, rcVars>>)
    \/ (GpsEmit /\ UNCHANGED <<pipeVars, mergeVars, ruleVars, permVars, propVars, rcVars, adbVars>>)
    \/ (GpsRaise /\ UNCHANGED <<pipeVars, mergeVars, ruleVars, permVars, propVars, rcVars, adbVars>>)
    \/ (GpsFinish /\ UNCHANGED <<pipeVars, mergeVars, ruleVars, permVars, propVars, rcVars, adbVars>>)
    \/ (AdbCancel /\ UNCHANGED <<pipeVars, mergeVars, ruleVars, permVars, propVars, rcVars, smartVars>>)
    \/ (AdbBuildProp /\ UNCHANGED <<pipeVars, mergeVars, ruleVars, permVars, propVars, rcVars, smartVars>>)
    \/ (AdbInitRc /\ UNCHANGED <<pipeVars, mergeVars, ruleVars, permVars, propVars, rcVars, smartVars>>)
    \/ (AdbEmit /\ UNCHANGED <<pipeVars, mergeVars, ruleVars, permVars, propVars, rcVars, smartVars>>)
    \/ (AdbReturn /\ UNCHANGED <<pipeVars, mergeVars, ruleVars, permVars, propVars, rcVars, smartVars>>)
    \/ (SmartOnGpsFinished /\ UNCHANGED <<pipeVars, mergeVars, ruleVars, permVars, propVars, rcVars, adbVars>>)
    \/ (SmartOnCancelled /\ UNCHANGED <<pipeVars, mergeVars, ruleVars, permVars, propVars, rcVars, adbVars>>)
    \/ (SmartSaveAdbFiles /\ UNCHANGED <<pipeVars, mergeVars, ruleVars, permVars, propVars, rcVars, adbVars>>)

SpecSmart == SmartInit /\ [][SmartNext]_vars

\* the worker threads keep running and the event loop of the main thread
\* delivers every queued signal
SmartFairness ==
    /\ WF_vars((GpsEmit \/ GpsRaise) /\ UNCHANGED <<pipeVars, mergeVars, ruleVars, permVars, propVars, rcVars, adbVars>>)
    /\ WF_vars(GpsFinish /\ UNCHANGED <<pipeVars, mergeVars, ruleVars, permVars, propVars, rcVars, adbVars>>)
    /\ WF_vars(AdbBuildProp /\ UNCHANGED <<pipeVars, mergeVars, ruleVars, permVars, propVars, rcVars, smartVars>>)
    /\ WF_vars(AdbInitRc /\ UNCHANGED <<pipeVars, mergeVars, ruleVars, permVars, propVars, rcVars, smartVars>>)
    /\ WF_vars(AdbEmit /\ UNCHANGED <<pipeVars, mergeVars, ruleVars, permVars, propVars, rcVars, smartVars>>)
    /\ WF_vars(AdbReturn /\ UNCHANGED <<pipeVars, mergeVars, ruleVars, permVars, propVars, rcVars, smartVars>>)
    /\ WF_vars(SmartOnGpsFinished /\ UNCHANGED <<pipeVars, mergeVars, ruleVars, permVars, propVars, rcVars, adbVars>>)
    /\ WF_vars(SmartOnCancelled /\ UNCHANGED <<pipeVars, mergeVars, ruleVars, permVars, propVars, rcVars, adbVars>>)
    /\ WF_vars(SmartSaveAdbFiles /\ UNCHANGED <<pipeVars, mergeVars, ruleVars, permVars, propVars, rcVars, adbVars>>)

SpecSmartFair == SpecSmart /\ SmartFairness

====
